---------------------------- MODULE Spec2Model ----------------------------
(***************************************************************************)
(* Collective-communication coordination layer of                          *)
(* xla/service/gpu/nccl_collective_thunk.cc.                               *)
(*                                                                         *)
(* Part I   the clique registry / rendezvous (GetOrCreate), reached from   *)
(*          LockNcclComm and GetNcclComm.  The registry itself             *)
(*          (AcquireNcclComm, nccl_clique.cc) follows section 4.2 of the   *)
(*          design; the number of local participants is computed as        *)
(*          GetNumLocalParticipants computes it.                           *)
(* Part II  the participant-set resolver (GetParticipatingDevices,         *)
(*          collective_ops_utils.cc), which follows section 4.1 of the     *)
(*          design, and the rank lookup of GetNcclComm / LockNcclComm;     *)
(*          NcclCollectiveConfig::IsDegenerate.                            *)
(* Part III AsyncEvents: the completion events of the execution contexts   *)
(*          (Initialize, GetEvent) under the mutex mu_.                    *)
(* Part IV  MaybeRegisterBuffers and its process-wide table of registered  *)
(*          (device, communicator) pairs and registration handles.         *)
(* Part V   NcclCollectiveThunk::Initialize and ExecuteOnStream: what is   *)
(*          enqueued on the main and the async stream of each device.      *)
(* Part VI  the device of one execution context: the order in which the   *)
(*          streams complete what ExecuteOnStream and Done enqueue.        *)
(* Part VII IsValidOperand and IsTypeSupportedByNccl.                      *)
(* Part VIII, IX  the collective-permute loop and the naive pipelines of   *)
(*          collective_pipeline_parallelism_test.cc.                       *)
(* Part X   Prepare, and the CliqueKey ExecuteOnStream asks with.          *)
(* Part XI  the number of local participants that Prepare and             *)
(*          LockNcclComm compute.                                          *)
(* Part XII ConvertToDeviceBuffers.                                        *)
(***************************************************************************)
EXTENDS Integers, Sequences, FiniteSets, TLC

VARIABLES
    \* ---- Part I: registry / rendezvous
    pc,           \* per host thread: "idle", "waiting", "constructing", "returned"
    att,          \* per host thread: the rendezvous attempt it joined (0: none)
    result,       \* per host thread: what GetOrCreate returned (0: nothing yet)
    inflight,     \* per CliqueKey: the attempt whose record is in the registry (0: none)
    attempts,     \* every rendezvous record ever inserted, by attempt id
    cache,        \* per CliqueKey: the constructed Channel (0: none)
    invalidated,  \* the Channels that were explicitly invalidated
    nchan,        \* number of Channels constructed so far (Channel identities)
    hasMap,       \* whether params.global_device_id_map is given
    \* ---- Part II: resolver and rank lookup
    replica_count,    \* device_assn->replica_count()
    partition_count,  \* device_assn->computation_count()
    device_assn,      \* (replica, partition) -> GlobalDeviceId
    group_mode,       \* config().group_mode
    replica_groups,   \* config().replica_groups
    global_config,    \* IsGlobalNcclConfig()
    resolved,         \* per device: the outcome of its last resolution
    rank,             \* per device: the rank its last invocation used
    deref_null,       \* per device: whether it dereferenced an empty rank
    degenerate,       \* <<>>, or <<what the last call of IsDegenerate came to>>
    \* ---- Part III: AsyncEvents
    events_,      \* per executor: its completion event (NoEvent: no entry)
    mu_,          \* the thread that holds AsyncEvents::mu_ (NoThread: free)
    epc,          \* per thread: where it is in Initialize or GetEvent
    ecall,        \* per thread: the call it makes or made last
    eret,         \* per thread: what that call returned
    created,      \* the executor of every event whose Init() succeeded, in order
    ok_inits,     \* per executor: the calls of Initialize that returned Ok
    \* ---- Part IV: MaybeRegisterBuffers
    per_device_comms,  \* all_registered.per_device_comms: device -> communicators
    handles,           \* all_registered.handles
    reg_mu,            \* the thread that holds all_registered.mu (NoThread: free)
    rpc,               \* per thread: where it is in MaybeRegisterBuffers
    rcall,             \* per thread: the arguments of its call
    ri,                \* per thread: the loop index i (from 1)
    rret,              \* per thread: what its call returned
    rcount,            \* per thread: RegisterBuffer invocations of its call
    rafter,            \* per thread: how an earlier call with a source buffer
                       \* of its call returned ("none": there was none)
    returned,          \* <<device, comm, source buffer, status>> of the
                       \* collective-memory source buffers of returned calls
    nreg,              \* the calls made so far
    invoked,           \* per (device, comm): the invocations of
                       \* RegisterBuffer so far and the calls that made them
    \* ---- Part V: Initialize and ExecuteOnStream of one thunk
    is_sync,                 \* the constructor's is_sync
    first_call_to_execute_,  \* the member of that name
    xpc,           \* per executor: where its host thread is in ExecuteOnStream
    xcall,         \* per executor: the number of the call it is in or made last
    xret,          \* per executor: what that call returned ("none": nothing yet)
    main_stream,   \* per executor: what was enqueued on params.stream
    async_stream,  \* per executor: what was enqueued on its async stream
    host_blocks,   \* per executor: the calls in which the host was blocked
    xafter,        \* per executor: how the calls that had returned when its
                   \* call began had ended ("none", "error", "ok")
    completed,     \* how the calls that returned have ended, "ok" if one did
    done_for,      \* per executor: the call whose Done step was run last (0: none)
    nexec,         \* the calls of ExecuteOnStream made so far
    xstages,       \* per executor: the stages its call attempted, in order
    xfirst,        \* per executor: the number of its first call (0: none yet)
    xinit,         \* per executor: what its last Initialize returned
    \* ---- Part VI: the device of one execution context
    dev_init,      \* Initialize has created the completion event
    dev_first,     \* first_call_to_execute_
    dev_main,      \* what was enqueued on the main stream, in order
    dev_async,     \* what was enqueued on the async stream, in order
    main_done,     \* how many operations of the main stream have completed
    async_done,    \* how many operations of the async stream have completed
    issued,        \* per event: the records of it enqueued so far
    fired,         \* per event: the records of it that have completed
    hphase,        \* the ExecuteOnStream and Done steps the host has made
    hblocked,      \* the host is in BlockHostUntilDone
    nwork,         \* the work enqueued on the main stream since the last step
    \* ---- Part VII: IsValidOperand
    op_shape,      \* the shape of the operand
    op_kind,       \* the kind of the thunk
    op_status,     \* <<>>, or <<what IsValidOperand returned>>
    \* ---- Part VIII: the circular collective-permute loop
    perm_n,        \* the number of replicas
    perm_input,    \* per replica: the value of its input A
    perm_data,     \* per replica: data of the loop state
    perm_iter,     \* iter of the loop state
    perm_recv,     \* per replica: the sources it received from in the last iteration
    \* ---- Part IX: the naive pipeline over four replicas
    pipe_m,        \* kMicrobatches of the test
    pipe_r,        \* the circular repeats of the test
    pipe_vals,     \* per microbatch: the value of its row of real_input
    pipe_output,   \* per replica: output of the loop state
    pipe_buffer,   \* per replica: buffer of the loop state
    pipe_tmp,      \* per replica: compute_out of the iteration before
    pipe_i,        \* i of the loop state
    \* ---- Part X: Prepare and the clique of an invocation
    thunk_stream,  \* per thunk: its GetStreamId()
    cstate,        \* per context: where its invocation is
    requests,      \* per context: the cliques Prepare asked for
    used_key,      \* per context: the key GetNcclComm asked the communicator for
    got_comm,      \* per context: the Channel it received (NoChannel: none)
    cliques,       \* the cliques the process holds: <<key, Channel>>
    nprep,         \* the calls of Prepare made so far
    \* ---- Part XI: the number of local participants
    loc_participants, \* the ParticipantSet the device resolved into
    loc_map,       \* <<>>, or <<params.global_device_id_map>>
    loc_prepare,   \* <<>>, or <<the number Prepare computed>>
    loc_lock,      \* <<>>, or <<the number LockNcclComm computed>>
    \* ---- Part XII: ConvertToDeviceBuffers
    cv_allocations, \* buffer_allocations: slice -> device address
    cv_buffers,    \* buffers: the buffer bindings of the thunk
    cv_types,      \* element_types
    cv_result      \* <<>>, or <<what ConvertToDeviceBuffers returned>>

rdvVars == <<pc, att, result, inflight, attempts, cache, invalidated, nchan, hasMap>>

resVars == <<replica_count, partition_count, device_assn, group_mode,
             replica_groups, global_config, resolved, rank, deref_null,
             degenerate>>

evVars == <<events_, mu_, epc, ecall, eret, created, ok_inits>>

regVars == <<per_device_comms, handles, reg_mu, rpc, rcall, ri, rret, rcount,
             rafter, returned, nreg, invoked>>

exVars == <<is_sync, first_call_to_execute_, xpc, xcall, xret, main_stream,
            async_stream, host_blocks, xafter, completed, done_for, nexec,
            xstages, xfirst, xinit>>

devVars == <<dev_init, dev_first, dev_main, dev_async, main_done, async_done,
             issued, fired, hphase, hblocked, nwork>>

opVars == <<op_shape, op_kind, op_status>>

permVars == <<perm_n, perm_input, perm_data, perm_iter, perm_recv>>

pipeVars == <<pipe_m, pipe_r, pipe_vals, pipe_output, pipe_buffer, pipe_tmp, pipe_i>>

prepVars == <<thunk_stream, cstate, requests, used_key, got_comm, cliques,
              nprep>>

locVars == <<loc_participants, loc_map, loc_prepare, loc_lock>>

cvVars == <<cv_allocations, cv_buffers, cv_types, cv_result>>

\* The parts that follow Part V.
laterVars == <<devVars, opVars, permVars, pipeVars, prepVars, locVars, cvVars>>

vars == <<rdvVars, resVars, evVars, regVars, exVars, laterVars>>

\* What a part of the model leaves alone.
notRdv == <<resVars, evVars, regVars, exVars, laterVars>>
notRes == <<rdvVars, evVars, regVars, exVars, laterVars>>
notEv == <<rdvVars, resVars, regVars, exVars, laterVars>>
notReg == <<rdvVars, resVars, evVars, exVars, laterVars>>
notEx == <<rdvVars, resVars, regVars, laterVars>>
notDev == <<rdvVars, resVars, evVars, regVars, exVars, opVars, permVars, pipeVars, prepVars, locVars, cvVars>>
notOp == <<rdvVars, resVars, evVars, regVars, exVars, devVars, permVars, pipeVars, prepVars, locVars, cvVars>>
notPerm == <<rdvVars, resVars, evVars, regVars, exVars, devVars, opVars, pipeVars, prepVars, locVars, cvVars>>
notPipe == <<rdvVars, resVars, evVars, regVars, exVars, devVars, opVars, permVars, prepVars, locVars, cvVars>>
notPrep == <<rdvVars, resVars, evVars, regVars, exVars, devVars, opVars, permVars, pipeVars, locVars, cvVars>>
notLoc == <<rdvVars, resVars, evVars, regVars, exVars, devVars, opVars, permVars, pipeVars, prepVars, cvVars>>
notCv == <<rdvVars, resVars, evVars, regVars, exVars, devVars, opVars, permVars, pipeVars, prepVars, locVars>>

Range(s) == {s[i] : i \in 1..Len(s)}

----------------------------------------------------------------------------
(* Part I: bounds and the configuration of the process                     *)

\* Total number of rendezvous attempts the model follows.
MaxAttempts == 2

\* The devices of this process, in the order of global_device_id_map; one
\* host thread drives each.  Device 4 belongs to another process.
local_devices == <<1, 2, 3>>

Threads == Range(local_devices)

\* The participant sets the threads resolve into.
ParticipantSets == {<<1, 2>>, <<2, 3, 4>>}

\* The logical stream indices in use.
StreamIds == {0}

\* The key made of the participants alone.
NcclCliqueKey_NoStream(participants, stream_id) == <<participants, 0>>

\* NcclCliqueKey(participants, stream_id)
NcclCliqueKey(participants, stream_id) == <<participants, stream_id>>

CliqueKeys == {NcclCliqueKey(ps, s) : ps \in ParticipantSets, s \in StreamIds}

Devices(k) == k[1]

\* absl::c_linear_search(*local_devices, device_id)
LinearSearch(seq, x) == \E i \in 1..Len(seq) : seq[i] = x

\* absl::c_count_if(participants, pred)
RECURSIVE CountIf(_, _)
CountIf(participants, local) ==
    IF participants = <<>> THEN 0
    ELSE (IF LinearSearch(local, Head(participants)) THEN 1 ELSE 0)
         + CountIf(Tail(participants), local)

\* c_any_of in place of c_count_if: whether some participant is local.
GetNumLocalParticipants_AnyOf(participants, has_local, local) ==
    IF ~has_local THEN Len(participants)
    ELSE IF \E i \in 1..Len(participants) : LinearSearch(local, participants[i])
         THEN 1 ELSE 0

\* The local device list ignored: every participant counted.
GetNumLocalParticipants_All(participants, has_local, local) ==
    Len(participants)

\* GetNumLocalParticipants(participants, local_devices); has_local is
\* "local_devices != nullptr".
GetNumLocalParticipants(participants, has_local, local) ==
    IF ~has_local THEN Len(participants)
    ELSE CountIf(participants, local)

\* participants.size() of the ParticipantSets that are followed.
MaxParticipants == 3

\* global_device_id_map->size() of the maps that are followed.
MaxLocal == 2

\* GlobalDeviceId values.
GlobalDeviceIds == 1..4

\* The ParticipantSets: the devices of a group, each once.
LocParticipantSets ==
    {p \in UNION {[1..n -> GlobalDeviceIds] : n \in 0..MaxParticipants} :
        \A i, j \in DOMAIN p : i # j => p[i] # p[j]}

\* global_device_id_map: local device ordinal -> GlobalDeviceId.
GlobalDeviceIdMaps ==
    UNION {[0..(n - 1) -> GlobalDeviceIds] : n \in 0..MaxLocal}

\* for (const auto& entry : *global_device_id_map)
\*   local_devices.push_back(entry.second);
LocalDevicesOf(map) ==
    [i \in 1..Cardinality(DOMAIN map) |-> map[i - 1]]

\* Prepare: the local devices and GetNumLocalParticipants(participants,
\* global_device_id_map ? &local_devices : nullptr); map is <<>> when no
\* global_device_id_map is given.
PrepareNumLocalParticipants(participants, map) ==
    GetNumLocalParticipants(participants, map # <<>>,
                            IF map # <<>> THEN LocalDevicesOf(map[1])
                            ELSE <<>>)

\* The size of the map taken for the number of local participants.
LockNumLocalParticipants_MapSize(participants, map) ==
    IF map # <<>> THEN Cardinality(DOMAIN map[1]) ELSE Len(participants)

\* LockNcclComm: the same lines as in Prepare.
LockNumLocalParticipants(participants, map) ==
    GetNumLocalParticipants(participants, map # <<>>,
                            IF map # <<>> THEN LocalDevicesOf(map[1])
                            ELSE <<>>)


----------------------------------------------------------------------------
(* Part I: the registry (design section 4.2)                               *)

NoAttempt == 0
NoChannel == 0

\* The error a failed construction of attempt a leaves for its participants.
ConstructionFailure(a) == 0 - a

\* The rendezvous record of one attempt.
\*   order     the participants in the order they arrived
\*   leader    the thread elected leader
\*   expected  the number of local participants the barrier waits for
\*   status    "gathering", "constructing", "ok" or "failed"
\*   channel   the Channel all participants receive (status "ok")
\*   builders  the threads that ran the construction function
\*   runs      how often the construction function was started
\*   left      the participants that have returned
NewRecord(k, t, n) ==
    [key |-> k, order |-> <<t>>, leader |-> t, expected |-> n,
     status |-> "gathering", channel |-> NoChannel, builders |-> {},
     runs |-> 0, left |-> {}]

\* A later arrival that takes the leadership over.
Join_Overwrite(rec, t) ==
    [rec EXCEPT !.order = Append(@, t), !.leader = t]

\* Step 2: the first thread to insert the key's record is the leader.  A
\* later arrival joins the record.
Join(rec, t) ==
    [rec EXCEPT !.order = Append(@, t)]

\* Step 1: the barrier is complete when the expected number of local
\* participants have arrived.
BarrierComplete(rec) == Len(rec.order) = rec.expected

\* Every participant that has not constructed yet may construct.
MayConstruct_Anyone(rec, t) ==
    /\ BarrierComplete(rec)
    /\ rec.status \in {"gathering", "constructing"}
    /\ t \notin rec.builders

\* Steps 2 and 3: only the leader constructs, once, after the barrier.
MayConstruct(rec, t) ==
    /\ BarrierComplete(rec)
    /\ rec.status = "gathering"
    /\ rec.leader = t

\* Steps 3 and 4: a participant returns once the barrier is complete and the
\* outcome (Channel or error) is known.
MayReturn(rec, t) ==
    /\ BarrierComplete(rec)
    /\ rec.status \in {"ok", "failed"}

\* The error handed to the leader only.
Outcome_LeaderOnly(rec, a, t) ==
    IF rec.status = "ok" \/ rec.leader # t THEN rec.channel
    ELSE ConstructionFailure(a)

\* What a participant receives from a finished record of attempt a.
Outcome(rec, a, t) ==
    IF rec.status = "ok" THEN rec.channel ELSE ConstructionFailure(a)

\* Step 5: the registry's cache after a construction that succeeded with
\* Channel c.
CacheAfterSuccess(c) == c

\* The failed result kept in the cache.
CacheAfterFailure_KeepError(old, a) == ConstructionFailure(a)

\* Step 4: a failed construction leaves the registry's cache as it was.
CacheAfterFailure(old, a) == old

\* The cache never consulted.
Lookup_Ignore(k) == NoChannel

\* Step 5: what the leader finds for the key before constructing.
Lookup(k) == cache[k]

\* The resolver is not in use while the registry is followed.
ResIdle ==
    /\ replica_count = 1
    /\ partition_count = 1
    /\ device_assn = <<>>
    /\ group_mode = "kCrossReplica"
    /\ replica_groups = <<>>
    /\ global_config = FALSE
    /\ resolved = <<>>
    /\ rank = <<>>
    /\ deref_null = <<>>
    /\ degenerate = <<>>

\* AsyncEvents is not in use.
EvIdle ==
    /\ events_ = <<>>
    /\ mu_ = 0
    /\ epc = <<>>
    /\ ecall = <<>>
    /\ eret = <<>>
    /\ created = <<>>
    /\ ok_inits = <<>>

\* MaybeRegisterBuffers is not in use.
RegIdle ==
    /\ per_device_comms = <<>>
    /\ handles = <<>>
    /\ reg_mu = 0
    /\ rpc = <<>>
    /\ rcall = <<>>
    /\ ri = <<>>
    /\ rret = <<>>
    /\ rcount = <<>>
    /\ rafter = <<>>
    /\ invoked = <<>>
    /\ returned = {}
    /\ nreg = 0

\* No thunk is executed.
ExIdle ==
    /\ is_sync = TRUE
    /\ first_call_to_execute_ = TRUE
    /\ xpc = <<>>
    /\ xcall = <<>>
    /\ xret = <<>>
    /\ main_stream = <<>>
    /\ async_stream = <<>>
    /\ host_blocks = <<>>
    /\ xafter = <<>>
    /\ completed = "none"
    /\ done_for = <<>>
    /\ nexec = 0
    /\ xstages = <<>>
    /\ xfirst = <<>>
    /\ xinit = <<>>

\* No device is followed.
DevIdle ==
    /\ dev_init = FALSE
    /\ dev_first = TRUE
    /\ dev_main = <<>>
    /\ dev_async = <<>>
    /\ main_done = 0
    /\ async_done = 0
    /\ issued = <<>>
    /\ fired = <<>>
    /\ hphase = 0
    /\ hblocked = FALSE
    /\ nwork = 0

\* No operand is validated.
OpIdle ==
    /\ op_shape = <<>>
    /\ op_kind = ""
    /\ op_status = <<>>

\* No permute loop is run.
PermIdle ==
    /\ perm_n = 0
    /\ perm_input = <<>>
    /\ perm_data = <<>>
    /\ perm_iter = 0
    /\ perm_recv = <<>>

\* No pipeline is run.
PipeIdle ==
    /\ pipe_m = 0
    /\ pipe_r = 0
    /\ pipe_vals = <<>>
    /\ pipe_output = <<>>
    /\ pipe_buffer = <<>>
    /\ pipe_tmp = <<>>
    /\ pipe_i = 0

\* No invocation is prepared.
PrepIdle ==
    /\ thunk_stream = <<>>
    /\ cstate = <<>>
    /\ requests = <<>>
    /\ used_key = <<>>
    /\ got_comm = <<>>
    /\ cliques = {}
    /\ nprep = 0

\* Part XI is not in use.
LocIdle ==
    /\ loc_participants = <<>>
    /\ loc_map = <<>>
    /\ loc_prepare = <<>>
    /\ loc_lock = <<>>

\* Part XII is not in use.
CvIdle ==
    /\ cv_allocations = <<>>
    /\ cv_buffers = <<>>
    /\ cv_types = <<>>
    /\ cv_result = <<>>

\* The parts that follow Part V are not in use.
LaterIdle == DevIdle /\ OpIdle /\ PermIdle /\ PipeIdle /\ PrepIdle /\ LocIdle /\ CvIdle

RdvInit ==
    /\ pc = [t \in Threads |-> "idle"]
    /\ att = [t \in Threads |-> NoAttempt]
    /\ result = [t \in Threads |-> 0]
    /\ inflight = [k \in CliqueKeys |-> NoAttempt]
    /\ attempts = <<>>
    /\ cache = [k \in CliqueKeys |-> NoChannel]
    /\ invalidated = {}
    /\ nchan = 0
    /\ hasMap \in BOOLEAN
    /\ ResIdle
    /\ EvIdle
    /\ RegIdle
    /\ ExIdle
    /\ LaterIdle

\* GetOrCreate(key, ...) by thread t, first half: arrive at the rendezvous
\* of key k.  The expected participant count is the one LockNcclComm passes
\* to AcquireNcclComm.  A record whose barrier is complete takes no further
\* arrival: a later call joins a fresh record once this one is retired.
Arrive(t, k) ==
    /\ pc[t] = "idle"
    /\ LinearSearch(Devices(k), t)
    /\ IF inflight[k] = NoAttempt
       THEN /\ Len(attempts) < MaxAttempts
            /\ attempts' = Append(attempts,
                   NewRecord(k, t, GetNumLocalParticipants(Devices(k), hasMap,
                                                           local_devices)))
            /\ inflight' = [inflight EXCEPT ![k] = Len(attempts) + 1]
            /\ att' = [att EXCEPT ![t] = Len(attempts) + 1]
       ELSE /\ ~BarrierComplete(attempts[inflight[k]])
            /\ attempts' = [attempts EXCEPT ![inflight[k]] = Join(@, t)]
            /\ att' = [att EXCEPT ![t] = inflight[k]]
            /\ UNCHANGED inflight
    /\ pc' = [pc EXCEPT ![t] = "waiting"]
    /\ UNCHANGED <<result, cache, invalidated, nchan, hasMap, notRdv>>

\* The leader finds the key's Channel in the registry's cache: no
\* construction.
Reuse(t) ==
    /\ pc[t] = "waiting"
    /\ MayConstruct(attempts[att[t]], t)
    /\ Lookup(attempts[att[t]].key) # NoChannel
    /\ attempts' = [attempts EXCEPT ![att[t]] =
           [@ EXCEPT !.status = "ok",
                     !.channel = Lookup(attempts[att[t]].key)]]
    /\ UNCHANGED <<pc, att, result, inflight, cache, invalidated, nchan, hasMap, notRdv>>

\* The leader starts the construction function.
BeginConstruct(t) ==
    /\ pc[t] = "waiting"
    /\ MayConstruct(attempts[att[t]], t)
    /\ Lookup(attempts[att[t]].key) = NoChannel
    /\ attempts' = [attempts EXCEPT ![att[t]] =
           [@ EXCEPT !.status = "constructing", !.builders = @ \cup {t},
                     !.runs = @ + 1]]
    /\ pc' = [pc EXCEPT ![t] = "constructing"]
    /\ UNCHANGED <<att, result, inflight, cache, invalidated, nchan, hasMap, notRdv>>

\* The construction function returns a new Channel.
ConstructOk(t) ==
    /\ pc[t] = "constructing"
    /\ nchan' = nchan + 1
    /\ attempts' = [attempts EXCEPT ![att[t]] =
           [@ EXCEPT !.status = "ok", !.channel = nchan + 1]]
    /\ cache' = [cache EXCEPT ![attempts[att[t]].key] =
                     CacheAfterSuccess(nchan + 1)]
    /\ pc' = [pc EXCEPT ![t] = "waiting"]
    /\ UNCHANGED <<att, result, inflight, invalidated, hasMap, notRdv>>

\* The construction function fails: nothing is cached.
ConstructFail(t) ==
    /\ pc[t] = "constructing"
    /\ attempts' = [attempts EXCEPT ![att[t]] = [@ EXCEPT !.status = "failed"]]
    /\ cache' = [cache EXCEPT ![attempts[att[t]].key] =
                     CacheAfterFailure(@, att[t])]
    /\ pc' = [pc EXCEPT ![t] = "waiting"]
    /\ UNCHANGED <<att, result, inflight, invalidated, nchan, hasMap, notRdv>>

\* GetOrCreate, second half: thread t returns the outcome; the record is
\* retired when the last participant has it.
Return(t) ==
    /\ pc[t] = "waiting"
    /\ MayReturn(attempts[att[t]], t)
    /\ result' = [result EXCEPT ![t] = Outcome(attempts[att[t]], att[t], t)]
    /\ attempts' = [attempts EXCEPT ![att[t]] = [@ EXCEPT !.left = @ \cup {t}]]
    /\ inflight' = IF attempts'[att[t]].left = Range(attempts[att[t]].order)
                   THEN [inflight EXCEPT ![attempts[att[t]].key] = NoAttempt]
                   ELSE inflight
    /\ pc' = [pc EXCEPT ![t] = "returned"]
    /\ UNCHANGED <<att, cache, invalidated, nchan, hasMap, notRdv>>

\* The invocation of thread t is over; the thread is free for a new step.
Finish(t) ==
    /\ pc[t] = "returned"
    /\ pc' = [pc EXCEPT ![t] = "idle"]
    /\ att' = [att EXCEPT ![t] = NoAttempt]
    /\ result' = [result EXCEPT ![t] = 0]
    /\ UNCHANGED <<inflight, attempts, cache, invalidated, nchan, hasMap, notRdv>>

\* The Channel of key k is explicitly invalidated (error, clean shutdown)
\* while no rendezvous for k is under way.
Invalidate(k) ==
    /\ cache[k] # NoChannel
    /\ inflight[k] = NoAttempt
    /\ invalidated' = invalidated \cup {cache[k]}
    /\ cache' = [cache EXCEPT ![k] = NoChannel]
    /\ UNCHANGED <<pc, att, result, inflight, attempts, nchan, hasMap, notRdv>>

RdvNext ==
    \/ \E t \in Threads, k \in CliqueKeys : Arrive(t, k)
    \/ \E t \in Threads : Reuse(t)
    \/ \E t \in Threads : BeginConstruct(t)
    \/ \E t \in Threads : ConstructOk(t)
    \/ \E t \in Threads : ConstructFail(t)
    \/ \E t \in Threads : Return(t)
    \/ \E t \in Threads : Finish(t)
    \/ \E k \in CliqueKeys : Invalidate(k)

SpecRendezvous == RdvInit /\ [][RdvNext]_vars

\* Every host thread keeps running: a thread that can construct, finish a
\* construction or return does so eventually.  Whether a thread calls
\* GetOrCreate at all is up to its caller.
RdvFairness ==
    \A t \in Threads :
        /\ WF_vars(Reuse(t))
        /\ WF_vars(BeginConstruct(t))
        /\ WF_vars(ConstructOk(t) \/ ConstructFail(t))
        /\ WF_vars(Return(t))

SpecRendezvousFair == RdvInit /\ [][RdvNext]_vars /\ RdvFairness


----------------------------------------------------------------------------
(* Part I: properties of the registry                                      *)

AttemptIds == 1..Len(attempts)

Resolved(a) == attempts[a].status \in {"ok", "failed"}

\* Thread t has returned from GetOrCreate and still holds what it got.
Holds(t) == pc[t] = "returned"

KeyOf(t) == attempts[att[t]].key

\* The number of members of the key's ParticipantSet that are local to this
\* process (all of them when no local device list is given).
LocalParticipants(k) ==
    IF hasMap THEN Cardinality(Range(Devices(k)) \cap Threads)
    ELSE Cardinality(Range(Devices(k)))

\* The attempts whose construction function produced Channel c.
ConstructedIn(c) ==
    {a \in AttemptIds : /\ attempts[a].runs > 0
                        /\ attempts[a].status = "ok"
                        /\ attempts[a].channel = c}

\* Attempt b is the next attempt after a for the same key.
NextFor(a, b) ==
    /\ a < b
    /\ attempts[a].key = attempts[b].key
    /\ \A m \in AttemptIds : a < m /\ m < b => attempts[m].key # attempts[a].key

\* C1: threads racing on GetOrCreate with equal CliqueKeys that succeed hold
\* the identical Channel, the construction function is never started twice
\* in a rendezvous, and the Channel they hold was constructed exactly once.
C1_SameChannelConstructedOnce ==
    /\ \A t, u \in Threads :
          (Holds(t) /\ Holds(u) /\ KeyOf(t) = KeyOf(u)
             /\ result[t] > 0 /\ result[u] > 0)
          => result[t] = result[u]
    /\ \A a \in AttemptIds : attempts[a].runs <= 1
    /\ \A t \in Threads :
          (Holds(t) /\ result[t] > 0)
          => Cardinality(ConstructedIn(result[t])) = 1

C1_Witness ==
    \E t, u \in Threads :
        /\ t # u
        /\ Holds(t) /\ Holds(u)
        /\ att[t] = att[u]
        /\ result[t] > 0 /\ result[t] = result[u]
        /\ attempts[att[t]].runs = 1

\* C2 (safety part): every participant that returns from a rendezvous whose
\* construction failed returns that failure and no Channel.
C2_FailureSeenByAll ==
    \A t \in Threads :
        (Holds(t) /\ attempts[att[t]].status = "failed")
        => result[t] = ConstructionFailure(att[t])

\* C2: the failure reaches every participant, and once the construction of
\* a rendezvous has failed every participant of it returns.
C2_FailurePropagates ==
    /\ [] C2_FailureSeenByAll
    /\ \A a \in 1..MaxAttempts :
          (a \in AttemptIds /\ attempts[a].status = "failed")
          ~> (a \in AttemptIds /\ attempts[a].left = Range(attempts[a].order))

C2_Witness ==
    \E a \in AttemptIds :
        /\ attempts[a].status = "failed"
        /\ Len(attempts[a].order) > 1
        /\ attempts[a].left = Range(attempts[a].order)
        /\ \E t \in Threads :
              Holds(t) /\ att[t] = a /\ t # attempts[a].leader /\ result[t] < 0

\* C3: in every rendezvous attempt the leader is the thread that inserted
\* the record (the first to arrive), and only the leader ever runs the
\* construction function.
C3_OneLeaderConstructs ==
    /\ \A a \in AttemptIds :
          /\ attempts[a].leader = attempts[a].order[1]
          /\ attempts[a].builders \subseteq {attempts[a].order[1]}
    /\ \A t \in Threads :
          pc[t] = "constructing" => t = attempts[att[t]].order[1]

C3_Witness ==
    \E a \in AttemptIds :
        /\ Len(attempts[a].order) > 1
        /\ attempts[a].builders = {attempts[a].order[1]}
        /\ attempts[a].order[1] > attempts[a].order[2]

\* C4: no caller has returned from a rendezvous unless all local
\* participants of its key have arrived at it.
C4_NoReturnBeforeAllArrived ==
    \A a \in AttemptIds :
        attempts[a].left # {}
        => Cardinality(Range(attempts[a].order))
              = LocalParticipants(attempts[a].key)

C4_Witness ==
    \E a \in AttemptIds :
        /\ hasMap
        /\ Len(Devices(attempts[a].key)) > LocalParticipants(attempts[a].key)
        /\ attempts[a].left # {}

\* C5: a participant waiting at a rendezvous at which all local
\* participants of the key have arrived eventually returns.
C5_AllArrivedAllReturn ==
    \A t \in Threads :
        (/\ pc[t] \in {"waiting", "constructing"}
         /\ Cardinality(Range(attempts[att[t]].order))
               = LocalParticipants(KeyOf(t)))
        ~> Holds(t)

C5_Witness ==
    \E t \in Threads :
        /\ pc[t] = "waiting"
        /\ t # attempts[att[t]].leader
        /\ attempts[att[t]].status = "constructing"
        /\ Cardinality(Range(attempts[att[t]].order))
              = LocalParticipants(KeyOf(t))

\* C6: the rendezvous that follows a failed one for the same key runs the
\* construction function itself, and its participants never receive the
\* earlier rendezvous' error.
C6_RetryFromScratch ==
    \A a, b \in AttemptIds :
        (NextFor(a, b) /\ attempts[a].status = "failed" /\ Resolved(b))
        => /\ attempts[b].runs = 1
           /\ \A t \in Threads :
                 (Holds(t) /\ att[t] = b)
                 => result[t] # ConstructionFailure(a)

C6_Witness ==
    \E a, b \in AttemptIds :
        /\ NextFor(a, b)
        /\ attempts[a].status = "failed"
        /\ attempts[b].status = "ok"
        /\ \E t \in Threads : Holds(t) /\ att[t] = b /\ result[t] > 0

\* C7: a rendezvous that follows a successful one for the same key, whose
\* Channel was not invalidated, returns that Channel and does not run the
\* construction function.
C7_ReuseConstructedChannel ==
    \A a, b \in AttemptIds :
        (/\ a < b
         /\ attempts[a].key = attempts[b].key
         /\ attempts[a].status = "ok"
         /\ attempts[a].channel \notin invalidated
         /\ attempts[b].status # "gathering")
        => /\ attempts[b].runs = 0
           /\ attempts[b].status = "ok"
           /\ attempts[b].channel = attempts[a].channel

C7_Witness ==
    \E a, b \in AttemptIds :
        /\ a < b
        /\ attempts[a].key = attempts[b].key
        /\ attempts[a].runs = 1
        /\ attempts[a].status = "ok"
        /\ attempts[b].runs = 0
        /\ \E t \in Threads :
              Holds(t) /\ att[t] = b /\ result[t] = attempts[a].channel


----------------------------------------------------------------------------
(* Part II: the participant-set resolver (design section 4.1) and the rank *)
(* lookup of GetNcclComm and LockNcclComm                                  *)

\* Largest number of groups in a replica-group list.
MaxGroups == 2

ReplicaCounts == {1, 2}
PartitionCounts == {1, 2}

GroupModes ==
    {"kCrossReplica", "kCrossPartition", "kCrossReplicaAndPartition",
     "kFlattenedID"}

\* The device assignments followed: GlobalDeviceIds 10, 11, ... laid out
\* row by row, forwards or backwards.
DeviceAssignments(R, P) ==
    {[lid \in (0..R-1) \X (0..P-1) |-> 10 + lid[1] * P + lid[2]],
     [lid \in (0..R-1) \X (0..P-1) |-> 10 + (R * P - 1) - (lid[1] * P + lid[2])]}

\* The number of logical ids a group of the mode ranges over.
IdCount(mode, R, P) ==
    CASE mode = "kCrossReplica" -> R
      [] mode = "kCrossPartition" -> P
      [] mode = "kCrossReplicaAndPartition" -> R
      [] mode = "kFlattenedID" -> R * P

\* A ReplicaGroup: one id below n, or two different ones.
ReplicaGroupsOver(n) ==
    {<<a>> : a \in 0..n-1} \cup {ab \in (0..n-1) \X (0..n-1) : ab[1] < ab[2]}

\* The replica-group lists: up to MaxGroups groups, which need neither cover
\* all ids nor be disjoint.
ReplicaGroupLists(n) ==
    UNION {[1..g -> ReplicaGroupsOver(n)] : g \in 0..MaxGroups}

DeviceIds == {device_assn[lid] : lid \in DOMAIN device_assn}

\* device_assn->LogicalIdForDevice(device_id)
LogicalIdForDevice(assn, d) == CHOOSE lid \in DOMAIN assn : assn[lid] = d

RECURSIVE Ascending(_)
Ascending(S) ==
    IF S = {} THEN <<>>
    ELSE LET m == CHOOSE x \in S : \A y \in S : x <= y
         IN <<m>> \o Ascending(S \ {m})

\* The caller's logical id in the id space of the mode.
CurrentId(mode, lid, P) ==
    CASE mode = "kCrossReplica" -> lid[1]
      [] mode = "kCrossPartition" -> lid[2]
      [] mode = "kCrossReplicaAndPartition" -> lid[1]
      [] mode = "kFlattenedID" -> lid[1] * P + lid[2]

\* The caller's id put first.
GroupOrder_CallerFirst(group, current_id) ==
    <<current_id>> \o Ascending(Range(group) \ {current_id})

\* The ids of a group in the ParticipantSet's order: ascending, each once.
GroupOrder(group, current_id) == Ascending(Range(group))

\* The ids that go together with current_id: the group that contains it,
\* or all ids when no groups are given.
GetParticipatingIDs(current_id, total, groups) ==
    IF groups = <<>>
    THEN [status |-> "ok", ids |-> Ascending(0..total-1)]
    ELSE IF \A i \in 1..Len(groups) : ~LinearSearch(groups[i], current_id)
    THEN [status |-> "InvalidConfiguration", ids |-> <<>>]
    ELSE LET i == CHOOSE i \in 1..Len(groups) :
                     /\ LinearSearch(groups[i], current_id)
                     /\ \A j \in 1..i-1 : ~LinearSearch(groups[j], current_id)
         IN [status |-> "ok", ids |-> GroupOrder(groups[i], current_id)]

\* The devices of the ids of a group, through the device assignment.
MapToDevices(mode, ids, lid, assn, P) ==
    CASE mode = "kCrossReplica" ->
           [i \in 1..Len(ids) |-> assn[<<ids[i], lid[2]>>]]
      [] mode = "kCrossPartition" ->
           [i \in 1..Len(ids) |-> assn[<<lid[1], ids[i]>>]]
      [] mode = "kCrossReplicaAndPartition" ->
           [j \in 1..(Len(ids) * P) |->
               assn[<<ids[((j - 1) \div P) + 1], (j - 1) % P>>]]
      [] mode = "kFlattenedID" ->
           [i \in 1..Len(ids) |-> assn[<<ids[i] \div P, ids[i] % P>>]]

\* Resolve(callingDeviceId, deviceAssignment, replicaGroups, groupMode)
GetParticipatingDevices(d, assn, R, P, groups, mode) ==
    IF mode = "kFlattenedID" /\ groups = <<>>
    THEN [status |-> "InvalidConfiguration", participants |-> <<>>]
    ELSE LET lid == LogicalIdForDevice(assn, d)
             got == GetParticipatingIDs(CurrentId(mode, lid, P),
                                        IdCount(mode, R, P), groups)
         IN IF got.status # "ok"
            THEN [status |-> got.status, participants |-> <<>>]
            ELSE [status |-> "ok",
                  participants |-> MapToDevices(mode, got.ids, lid, assn, P)]

NotCalled == [status |-> "none", participants |-> <<>>]

\* No rank: an empty std::optional / the end iterator.
NoRank == 0 - 1

\* absl::c_find(participants, global_device_id) - participants.begin();
\* Len(participants) stands for participants.end().
FindIndex(participants, d) ==
    IF LinearSearch(participants, d)
    THEN (CHOOSE i \in 1..Len(participants) :
              /\ participants[i] = d
              /\ \A j \in 1..i-1 : participants[j] # d) - 1
    ELSE Len(participants)

\* The position counted from one.
LockRank_FromOne(participants, d) == FindIndex(participants, d) + 1

\* LockNcclComm: int rank = it - participants.begin()
LockRank(participants, d) == FindIndex(participants, d)

\* NcclCliqueKey::rank(id): the position of id in the key's devices, if any.
KeyRank(key, d) ==
    IF LinearSearch(Devices(key), d) THEN FindIndex(Devices(key), d)
    ELSE NoRank

\* The rank looked up among moved-from (empty) participants.
GetNcclCommRank_Moved(participants, stream_id, d) ==
    KeyRank(NcclCliqueKey(<<>>, stream_id), d)

\* GetNcclComm: clique_key(std::move(participants), stream_id) and
\* clique_key.rank(global_device_id).
GetNcclCommRank(participants, stream_id, d) ==
    KeyRank(NcclCliqueKey(participants, stream_id), d)

\* The registry is not in use while the resolver is followed.
RdvIdle ==
    /\ pc = [t \in Threads |-> "idle"]
    /\ att = [t \in Threads |-> NoAttempt]
    /\ result = [t \in Threads |-> 0]
    /\ inflight = [k \in CliqueKeys |-> NoAttempt]
    /\ attempts = <<>>
    /\ cache = [k \in CliqueKeys |-> NoChannel]
    /\ invalidated = {}
    /\ nchan = 0
    /\ hasMap = FALSE

ResInit ==
    /\ replica_count \in ReplicaCounts
    /\ partition_count \in PartitionCounts
    /\ device_assn \in DeviceAssignments(replica_count, partition_count)
    /\ group_mode \in GroupModes
    /\ replica_groups \in
           ReplicaGroupLists(IdCount(group_mode, replica_count, partition_count))
    /\ global_config \in BOOLEAN
    /\ resolved = [d \in DeviceIds |-> NotCalled]
    /\ rank = [d \in DeviceIds |-> NoRank]
    /\ deref_null = [d \in DeviceIds |-> FALSE]
    /\ degenerate = <<>>
    /\ RdvIdle
    /\ EvIdle
    /\ RegIdle
    /\ ExIdle
    /\ LaterIdle

\* GetNcclComm, LockNcclComm: the participants of the calling device, and
\* the check made under the NCCL_COMM_ID configuration.
\* The participant count compared before the status of the resolution is
\* looked at.
ResolveParticipants_SizeFirst(d) ==
    LET got == GetParticipatingDevices(d, device_assn, replica_count,
                                       partition_count, replica_groups,
                                       group_mode)
    IN IF global_config /\ Len(got.participants) # replica_count
       THEN [status |-> "InvalidArgument", participants |-> <<>>]
       ELSE got

ResolveParticipants(d) ==
    LET got == GetParticipatingDevices(d, device_assn, replica_count,
                                       partition_count, replica_groups,
                                       group_mode)
    IN IF got.status # "ok" THEN got
       ELSE IF global_config /\ Len(got.participants) # replica_count
       THEN [status |-> "InvalidArgument", participants |-> <<>>]
       ELSE got

\* GetNcclComm(params, collective_cliques, replica_groups, group_mode,
\* stream_id) by the thread of device d.  Dereferencing an empty rank is
\* undefined: any rank may come out of it.
GetNcclComm(d) ==
    LET got == ResolveParticipants(d)
        rk == GetNcclCommRank(got.participants, 0, d)
    IN /\ resolved' = [resolved EXCEPT ![d] = got]
       /\ IF got.status # "ok"
          THEN UNCHANGED <<rank, deref_null>>
          ELSE IF rk = NoRank
          THEN /\ deref_null' = [deref_null EXCEPT ![d] = TRUE]
               /\ \E r \in NoRank..Len(got.participants) :
                      rank' = [rank EXCEPT ![d] = r]
          ELSE /\ rank' = [rank EXCEPT ![d] = rk]
               /\ UNCHANGED deref_null
       /\ UNCHANGED <<replica_count, partition_count, device_assn, group_mode,
                      replica_groups, global_config, degenerate, notRes>>

\* LockNcclComm(params, replica_groups, group_mode, ...) by the thread of
\* device d, up to the acquisition of the communicator.
LockNcclComm(d) ==
    LET got == ResolveParticipants(d)
        rk == LockRank(got.participants, d)
    IN /\ IF got.status # "ok"
          THEN /\ resolved' = [resolved EXCEPT ![d] = got]
               /\ UNCHANGED rank
          ELSE IF ~LinearSearch(got.participants, d)
          THEN /\ resolved' = [resolved EXCEPT ![d] =
                      [status |-> "Internal", participants |-> <<>>]]
               /\ UNCHANGED rank
          ELSE /\ resolved' = [resolved EXCEPT ![d] = got]
               /\ rank' = [rank EXCEPT ![d] = rk]
       /\ UNCHANGED <<replica_count, partition_count, device_assn, group_mode,
                      replica_groups, global_config, deref_null, degenerate,
                      notRes>>

\* all_groups_singleton without the test for an empty list: c_all_of holds
\* of an empty list.
AllGroupsSingleton_NoEmptyTest(groups) ==
    \A i \in 1..Len(groups) : Len(groups[i]) = 1

\* IsDegenerate: all_groups_singleton
AllGroupsSingleton(groups) ==
    /\ groups # <<>>
    /\ \A i \in 1..Len(groups) : Len(groups[i]) = 1

\* What a call of a bool function comes to: it returns b, or a failed CHECK
\* ends the process before it returns.
Returns(b) == [fatal |-> FALSE, value |-> b]
CheckFailed == [fatal |-> TRUE, value |-> FALSE]

\* IsDegenerate with no CHECK in the flattened-id mode.
IsDegenerate_NoCheck(groups, mode, replicas, partitions) ==
    CASE mode = "kCrossReplica" ->
           Returns(AllGroupsSingleton(groups)
                     \/ (groups = <<>> /\ replicas = 1))
      [] mode = "kCrossPartition" ->
           Returns(AllGroupsSingleton(groups)
                     \/ (groups = <<>> /\ partitions = 1))
      [] mode = "kCrossReplicaAndPartition" ->
           Returns(\/ AllGroupsSingleton(groups) /\ partitions = 1
                   \/ groups = <<>> /\ replicas = 1 /\ partitions = 1)
      [] mode = "kFlattenedID" -> Returns(AllGroupsSingleton(groups))
      [] OTHER -> CheckFailed

\* IsDegenerate that does not look at the partition count in the
\* replica-and-partition mode.
IsDegenerate_IgnorePartitions(groups, mode, replicas, partitions) ==
    CASE mode = "kCrossReplica" ->
           Returns(AllGroupsSingleton(groups)
                     \/ (groups = <<>> /\ replicas = 1))
      [] mode = "kCrossPartition" ->
           Returns(AllGroupsSingleton(groups)
                     \/ (groups = <<>> /\ partitions = 1))
      [] mode = "kCrossReplicaAndPartition" ->
           Returns(\/ AllGroupsSingleton(groups)
                   \/ groups = <<>> /\ replicas = 1)
      [] mode = "kFlattenedID" ->
           IF groups = <<>> THEN CheckFailed
           ELSE Returns(AllGroupsSingleton(groups))
      [] OTHER -> CheckFailed

\* NcclCollectiveConfig::IsDegenerate(replica_count, partition_count).
IsDegenerate(groups, mode, replicas, partitions) ==
    CASE mode = "kCrossReplica" ->
           Returns(AllGroupsSingleton(groups)
                     \/ (groups = <<>> /\ replicas = 1))
      [] mode = "kCrossPartition" ->
           Returns(AllGroupsSingleton(groups)
                     \/ (groups = <<>> /\ partitions = 1))
      [] mode = "kCrossReplicaAndPartition" ->
           Returns(\/ AllGroupsSingleton(groups) /\ partitions = 1
                   \/ groups = <<>> /\ replicas = 1 /\ partitions = 1)
      [] mode = "kFlattenedID" ->
           IF groups = <<>> THEN CheckFailed
           ELSE Returns(AllGroupsSingleton(groups))
      [] OTHER -> CheckFailed

\* A caller asks whether the collective is degenerate.
CallIsDegenerate ==
    /\ degenerate' = <<IsDegenerate(replica_groups, group_mode, replica_count,
                                    partition_count)>>
    /\ UNCHANGED <<replica_count, partition_count, device_assn, group_mode,
                   replica_groups, global_config, resolved, rank, deref_null,
                   notRes>>

ResNext ==
    \/ \E d \in DeviceIds : GetNcclComm(d)
    \/ \E d \in DeviceIds : LockNcclComm(d)

\* The devices resolve their participants and a caller asks IsDegenerate.
DegNext ==
    \/ \E d \in DeviceIds : GetNcclComm(d)
    \/ CallIsDegenerate

SpecDegenerate == ResInit /\ [][DegNext]_vars

SpecResolve == ResInit /\ [][ResNext]_vars


----------------------------------------------------------------------------
(* Part II: properties of the resolver and of the rank                     *)

Ok(d) == resolved[d].status = "ok"

\* No logical id is a member of two groups of the list.
GroupsDisjoint ==
    \A i, j \in 1..Len(replica_groups) :
        i < j => Range(replica_groups[i]) \cap Range(replica_groups[j]) = {}

\* Device e, which has resolved too, is in the ParticipantSet of device d
\* but did not get the ParticipantSet d got.
ResolvedApart(d, e) ==
    /\ Ok(d)
    /\ resolved[e].status # "none"
    /\ LinearSearch(resolved[d].participants, e)
    /\ resolved[e] # resolved[d]

\* C8 as stated: for every group mode and every non-empty replica-group
\* list, the devices of one resolved group all resolve into the same
\* ParticipantSet, element by element.
C8_SameSetForEveryList ==
    replica_groups # <<>>
    => \A d, e \in DeviceIds : ~ResolvedApart(d, e)

\* C8, amended: for every group mode and every non-empty replica-group list
\* in which no id is in two groups, the devices of one resolved group all
\* resolve into the same ParticipantSet, element by element.
C8_SameSetForDisjointGroups ==
    (replica_groups # <<>> /\ GroupsDisjoint)
    => \A d, e \in DeviceIds : ~ResolvedApart(d, e)

C8_Witness ==
    /\ Len(replica_groups) = 2
    /\ GroupsDisjoint
    /\ \E d, e \in DeviceIds :
          /\ d # e
          /\ Ok(d) /\ Ok(e)
          /\ Len(resolved[d].participants) > 1
          /\ LinearSearch(resolved[d].participants, e)
          /\ resolved[e].participants = resolved[d].participants

\* C9: whenever the resolution succeeds the calling device is a member of
\* the ParticipantSet it got, and the rank lookup yields a value: no empty
\* rank is dereferenced and the rank is the caller's own position.
C9_CallerIsMember ==
    \A d \in DeviceIds :
        Ok(d) => /\ LinearSearch(resolved[d].participants, d)
                 /\ ~deref_null[d]
                 /\ rank[d] # NoRank
                 /\ rank[d] + 1 \in 1..Len(resolved[d].participants)
                 /\ resolved[d].participants[rank[d] + 1] = d

C9_Witness ==
    \E d \in DeviceIds :
        /\ Ok(d)
        /\ replica_groups # <<>>
        /\ Len(resolved[d].participants) > 1
        /\ rank[d] = 1

\* The ranks of the devices that resolved are zero-based positions in
\* their ParticipantSet, and two devices of one ParticipantSet differ in rank.
RanksArePositions ==
    \A d, e \in DeviceIds :
        (Ok(d) /\ Ok(e) /\ resolved[d].participants = resolved[e].participants)
        => /\ rank[d] \in 0..(Len(resolved[d].participants) - 1)
           /\ resolved[d].participants[rank[d] + 1] = d
           /\ (d # e => rank[d] # rank[e])

\* C10: the rank of a device is its zero-based position in the
\* ParticipantSet, lies in 0..Size()-1, differs between two devices of one
\* Channel, and is the same in every invocation with that ParticipantSet.
C10_RankIsStablePosition ==
    /\ [] RanksArePositions
    /\ [][\A d \in DeviceIds :
             (Ok(d) /\ resolved'[d].status = "ok"
                /\ resolved'[d].participants = resolved[d].participants)
             => rank'[d] = rank[d]]_vars

C10_Witness ==
    \E d, e \in DeviceIds :
        /\ Ok(d) /\ Ok(e)
        /\ resolved[d].participants = resolved[e].participants
        /\ rank[d] = 0
        /\ rank[e] = Len(resolved[e].participants) - 1
        /\ rank[e] > 1


\* ---------------------------------------------------------------------
\* Resolution failures and degenerate collectives

\* The replica groups are explicit and the logical id of device d is in none.
CallerInNoGroup(d) ==
    LET id == CurrentId(group_mode, LogicalIdForDevice(device_assn, d),
                        partition_count)
    IN /\ replica_groups # <<>>
       /\ \A i \in 1..Len(replica_groups) :
              ~LinearSearch(replica_groups[i], id)

NoParticipantSet == [status |-> "InvalidConfiguration", participants |-> <<>>]

\* C11: when the replica groups are explicit and the logical id of the
\* calling device is in none of them, Resolve fails with
\* InvalidConfiguration and returns no ParticipantSet.
C11_AbsentCallerFails ==
    \A d \in DeviceIds :
        (resolved[d].status # "none" /\ CallerInNoGroup(d))
        => resolved[d] = NoParticipantSet

C11_Witness ==
    \E d, e \in DeviceIds :
        /\ CallerInNoGroup(d)
        /\ resolved[d] = NoParticipantSet
        /\ global_config
        /\ Ok(e)

\* C12: in the flattened-id mode with empty replica groups no default group
\* is made up: Resolve fails with InvalidConfiguration, and IsDegenerate
\* ends in a failed CHECK and returns no value.
C12_FlattenedNeedsGroups ==
    (group_mode = "kFlattenedID" /\ replica_groups = <<>>)
    => /\ \A d \in DeviceIds :
              resolved[d].status # "none" => resolved[d] = NoParticipantSet
       /\ degenerate # <<>> => degenerate[1].fatal

C12_Witness ==
    /\ group_mode = "kFlattenedID"
    /\ replica_groups = <<>>
    /\ degenerate = <<CheckFailed>>
    /\ \A d \in DeviceIds : resolved[d] = NoParticipantSet

\* The replica groups are all of size one; an empty list has no groups of
\* size one.
AllSingleton ==
    /\ Len(replica_groups) > 0
    /\ \A i \in 1..Len(replica_groups) :
           Cardinality(Range(replica_groups[i])) = 1

\* The table of degenerate collectives, by group mode.
DegenerateTable ==
    CASE group_mode = "kCrossReplica" ->
           AllSingleton \/ (Len(replica_groups) = 0 /\ replica_count = 1)
      [] group_mode = "kCrossPartition" ->
           AllSingleton \/ (Len(replica_groups) = 0 /\ partition_count = 1)
      [] group_mode = "kCrossReplicaAndPartition" ->
           \/ AllSingleton /\ partition_count = 1
           \/ Len(replica_groups) = 0 /\ replica_count = 1
                /\ partition_count = 1
      [] group_mode = "kFlattenedID" -> AllSingleton

\* C13: for every group mode, group list and replica/partition count,
\* IsDegenerate returns the value of the table: all groups singleton or
\* (empty and one replica) across replicas, all singleton or (empty and
\* one partition) across partitions, (all singleton and one partition) or
\* (empty and one replica and one partition) across both, all singleton
\* for flattened ids; an empty list never counts as all singleton.
C13_DegenerateAsTabled ==
    (degenerate # <<>> /\ ~degenerate[1].fatal)
    => degenerate[1].value = DegenerateTable

C13_Witness ==
    /\ degenerate = <<Returns(FALSE)>>
    /\ replica_groups = <<>>
    /\ group_mode = "kCrossReplicaAndPartition"
    /\ replica_count = 1
    /\ partition_count = 2

\* The configuration is valid: every logical id is in exactly one group
\* (or the list is empty where a default exists), so that every device
\* resolves.
ValidConfiguration ==
    /\ GroupsDisjoint
    /\ \A d \in DeviceIds : ~CallerInNoGroup(d)
    /\ ~(group_mode = "kFlattenedID" /\ replica_groups = <<>>)

\* C14: for every valid configuration IsDegenerate returns true exactly
\* when the ParticipantSet Resolve forms for every device has one member.
C14_DegenerateIffAlone ==
    (/\ ValidConfiguration
     /\ degenerate # <<>>
     /\ \A d \in DeviceIds : Ok(d))
    => /\ ~degenerate[1].fatal
       /\ degenerate[1].value
            <=> \A d \in DeviceIds : Len(resolved[d].participants) = 1

C14_Witness ==
    /\ ValidConfiguration
    /\ degenerate = <<Returns(TRUE)>>
    /\ Cardinality(DeviceIds) > 1
    /\ \A d \in DeviceIds : Ok(d) /\ resolved[d].participants = <<d>>

\* =====================================================================
\* Part III: AsyncEvents
\* =====================================================================

\* The calls of Initialize that return Ok, per executor, that are followed.
MaxInits == 2

\* Host threads that use one AsyncEvents object.
EvThreads == {1, 2}

\* The execution contexts (se::StreamExecutor*).
Executors == {1, 2}

NoThread == 0
NoEvent == 0

\* events_.contains(executor) that never finds an entry.
Contains_Never(map, e) == FALSE

\* events_.contains(executor)
Contains(map, e) == map[e] # NoEvent

\* events_ = {{executor, event}}: the entries of the other contexts go.
TryEmplace_Fresh(map, e, ev) ==
    [x \in DOMAIN map |-> IF x = e THEN ev ELSE NoEvent]

\* events_.try_emplace(executor, std::move(event)): an entry is kept.
TryEmplace(map, e, ev) ==
    IF map[e] # NoEvent THEN map ELSE [map EXCEPT ![e] = ev]

\* events_[executor] in place of find: a missing entry is made, with an
\* event that was never initialized.
AfterFind_Subscript(map, e) ==
    IF map[e] # NoEvent THEN map ELSE [map EXCEPT ![e] = 0 - 1]

\* events_.find(executor) leaves the map as it is.
AfterFind(map, e) == map

\* The mutex not taken: every thread goes on.
MayLock_Always(t) == TRUE

\* absl::MutexLock lock(&mu_): thread t goes on when the mutex is free.
MayLock(t) == mu_ = NoThread

\* The end of the scope of the MutexLock of thread t.
Unlock(t) == IF mu_ = t THEN NoThread ELSE mu_

NoCall == [op |-> "none", executor |-> 0]
NoReturn == [status |-> "none", event |-> NoEvent]
OkStatus == [status |-> "ok", event |-> NoEvent]
InternalError == [status |-> "Internal", event |-> NoEvent]

EvInit ==
    /\ events_ = [e \in Executors |-> NoEvent]
    /\ mu_ = NoThread
    /\ epc = [t \in EvThreads |-> "idle"]
    /\ ecall = [t \in EvThreads |-> NoCall]
    /\ eret = [t \in EvThreads |-> NoReturn]
    /\ created = <<>>
    /\ ok_inits = [e \in Executors |-> 0]
    /\ RdvIdle
    /\ ResIdle
    /\ RegIdle
    /\ ExIdle
    /\ LaterIdle

\* Thread t calls AsyncEvents::Initialize(executor e).
InitializeCall(t, e) ==
    /\ epc[t] = "idle"
    /\ ok_inits[e] < MaxInits
    /\ epc' = [epc EXCEPT ![t] = "init_lock"]
    /\ ecall' = [ecall EXCEPT ![t] = [op |-> "Initialize", executor |-> e]]
    /\ eret' = [eret EXCEPT ![t] = NoReturn]
    /\ UNCHANGED <<events_, mu_, created, ok_inits, notEv>>

\* Initialize: absl::MutexLock lock(&mu_).
InitializeLock(t) ==
    /\ epc[t] = "init_lock"
    /\ MayLock(t)
    /\ mu_' = t
    /\ epc' = [epc EXCEPT ![t] = "init_contains"]
    /\ UNCHANGED <<events_, ecall, eret, created, ok_inits, notEv>>

\* Initialize: if (events_.contains(executor)) return OkStatus().
InitializeContains(t) ==
    /\ epc[t] = "init_contains"
    /\ IF Contains(events_, ecall[t].executor)
       THEN /\ eret' = [eret EXCEPT ![t] = OkStatus]
            /\ ok_inits' = [ok_inits EXCEPT ![ecall[t].executor] = @ + 1]
            /\ mu_' = Unlock(t)
            /\ epc' = [epc EXCEPT ![t] = "idle"]
       ELSE /\ epc' = [epc EXCEPT ![t] = "init_event"]
            /\ UNCHANGED <<eret, ok_inits, mu_>>
    /\ UNCHANGED <<events_, ecall, created, notEv>>

\* The event emplaced before the status of event.Init() is looked at.
InitializeEvent_EmplacesFirst(t) ==
    /\ epc[t] = "init_event"
    /\ created' = Append(created, ecall[t].executor)
    /\ events_' = TryEmplace(events_, ecall[t].executor, Len(created) + 1)
    /\ \E init_ok \in BOOLEAN :
          IF init_ok
          THEN /\ eret' = [eret EXCEPT ![t] = OkStatus]
               /\ ok_inits' = [ok_inits EXCEPT ![ecall[t].executor] = @ + 1]
          ELSE /\ eret' = [eret EXCEPT ![t] = InternalError]
               /\ UNCHANGED ok_inits
    /\ mu_' = Unlock(t)
    /\ epc' = [epc EXCEPT ![t] = "idle"]
    /\ UNCHANGED <<ecall, notEv>>

\* Initialize: se::Event event(executor); event.Init() fails and Internal
\* is returned, or the event is emplaced and Ok is returned.
InitializeEvent(t) ==
    /\ epc[t] = "init_event"
    /\ \E init_ok \in BOOLEAN :
          IF init_ok
          THEN /\ created' = Append(created, ecall[t].executor)
               /\ events_' = TryEmplace(events_, ecall[t].executor,
                                        Len(created) + 1)
               /\ eret' = [eret EXCEPT ![t] = OkStatus]
               /\ ok_inits' = [ok_inits EXCEPT ![ecall[t].executor] = @ + 1]
          ELSE /\ eret' = [eret EXCEPT ![t] = InternalError]
               /\ UNCHANGED <<created, events_, ok_inits>>
    /\ mu_' = Unlock(t)
    /\ epc' = [epc EXCEPT ![t] = "idle"]
    /\ UNCHANGED <<ecall, notEv>>

\* Thread t calls AsyncEvents::GetEvent(executor e).
GetEventCall(t, e) ==
    /\ epc[t] = "idle"
    /\ epc' = [epc EXCEPT ![t] = "get_lock"]
    /\ ecall' = [ecall EXCEPT ![t] = [op |-> "GetEvent", executor |-> e]]
    /\ eret' = [eret EXCEPT ![t] = NoReturn]
    /\ UNCHANGED <<events_, mu_, created, ok_inits, notEv>>

\* GetEvent: absl::MutexLock lock(&mu_).
GetEventLock(t) ==
    /\ epc[t] = "get_lock"
    /\ MayLock(t)
    /\ mu_' = t
    /\ epc' = [epc EXCEPT ![t] = "get_find"]
    /\ UNCHANGED <<events_, ecall, eret, created, ok_inits, notEv>>

\* GetEvent: events_.find(executor); Internal when there is no entry, the
\* address of the entry's event otherwise.
GetEventFind(t) ==
    LET map == AfterFind(events_, ecall[t].executor)
    IN /\ epc[t] = "get_find"
       /\ events_' = map
       /\ eret' = [eret EXCEPT ![t] =
                     IF map[ecall[t].executor] = NoEvent THEN InternalError
                     ELSE [status |-> "ok",
                           event |-> map[ecall[t].executor]]]
       /\ mu_' = Unlock(t)
       /\ epc' = [epc EXCEPT ![t] = "idle"]
       /\ UNCHANGED <<ecall, created, ok_inits, notEv>>

EvNext ==
    \/ \E t \in EvThreads, e \in Executors : InitializeCall(t, e)
    \/ \E t \in EvThreads : InitializeLock(t)
    \/ \E t \in EvThreads : InitializeContains(t)
    \/ \E t \in EvThreads : InitializeEvent(t)
    \/ \E t \in EvThreads, e \in Executors : GetEventCall(t, e)
    \/ \E t \in EvThreads : GetEventLock(t)
    \/ \E t \in EvThreads : GetEventFind(t)

SpecAsyncEvents == EvInit /\ [][EvNext]_vars

\* ---------------------------------------------------------------------
\* Properties of AsyncEvents

\* The executors that have a completion event.
Initialized == {e \in Executors : events_[e] # NoEvent}

\* The events made for executor e.
EventsCreatedFor(e) == {i \in 1..Len(created) : created[i] = e}

\* Thread t returns from the call of op it is in.
ReturnsFrom(t, op) ==
    /\ ecall[t].op = op
    /\ epc[t] # "idle"
    /\ epc'[t] = "idle"

\* C15: GetEvent for a context on which Initialize has not succeeded fails
\* with Internal and makes no entry: the initialized contexts are the
\* same before and after the call.
C15_GetEventNeverCreates ==
    [][\A t \in EvThreads :
          ReturnsFrom(t, "GetEvent")
          => /\ events_' = events_
             /\ ecall[t].executor \notin Initialized
                  => eret'[t] = InternalError]_vars

C15_Witness ==
    \E t \in EvThreads :
        /\ ecall[t].op = "GetEvent"
        /\ eret[t] = InternalError
        /\ ecall[t].executor \notin Initialized
        /\ Initialized # {}

\* Every GetEvent that returned an event returned the event of its context.
GetEventReturnsEntry ==
    \A t \in EvThreads :
        (ecall[t].op = "GetEvent" /\ eret[t].status = "ok")
        => eret[t].event = events_[ecall[t].executor]

\* C16: Initialize is idempotent per context: a call on an initialized
\* context returns Ok and makes no event, and GetEvent returns the same
\* event after the first and after the second Initialize.
C16_InitializeIdempotent ==
    /\ [][\A t \in EvThreads :
             (ReturnsFrom(t, "Initialize")
                /\ ecall[t].executor \in Initialized)
             => /\ eret'[t] = OkStatus
                /\ created' = created
                /\ events_' = events_]_vars
    /\ [] GetEventReturnsEntry

C16_Witness ==
    \E e \in Executors, t \in EvThreads :
        /\ ok_inits[e] >= 2
        /\ Cardinality(EventsCreatedFor(e)) = 1
        /\ ecall[t] = [op |-> "GetEvent", executor |-> e]
        /\ eret[t] = [status |-> "ok", event |-> events_[e]]

\* C17: the calls of Initialize that threads make for one context at the
\* same time make one completion event for it, which every later GetEvent
\* returns; the calls for different contexts make an event each.
C17_OneEventPerContext ==
    /\ \A e \in Executors :
           /\ Cardinality(EventsCreatedFor(e)) <= 1
           /\ e \in Initialized => EventsCreatedFor(e) = {events_[e]}
           /\ ok_inits[e] > 0 => e \in Initialized
    /\ GetEventReturnsEntry
    /\ \A e, f \in Initialized : e # f => events_[e] # events_[f]

\* Two threads are in Initialize for one context, one of them past the
\* test for an entry, while another context has its event.
C17_Witness ==
    \E t, u \in EvThreads :
        /\ t # u
        /\ ecall[t].op = "Initialize"
        /\ ecall[u] = ecall[t]
        /\ epc[t] = "init_event"
        /\ epc[u] = "init_lock"
        /\ Initialized = Executors \ {ecall[t].executor}

\* C38: once Initialize has succeeded for a context, no step removes or
\* replaces the event of that context, whatever calls are made for other
\* contexts, and every GetEvent for it that returns from then on returns
\* Ok with that event, the one event made for the context.
C38_InitializedEventStays ==
    /\ [][\A e \in Initialized : events_'[e] = events_[e]]_vars
    /\ [][\A t \in EvThreads :
             (ReturnsFrom(t, "GetEvent") /\ ok_inits[ecall[t].executor] > 0)
             => /\ eret'[t] = [status |-> "ok",
                               event |-> events_[ecall[t].executor]]
                /\ EventsCreatedFor(ecall[t].executor)
                      = {eret'[t].event}]_vars

\* One thread has initialized context 1, then context 2, and has then
\* got the event of context 1; the other thread has made no call.
C38_Witness ==
    \E t, u \in EvThreads :
        /\ ecall[u] = NoCall
        /\ created = <<1, 2>>
        /\ ecall[t] = [op |-> "GetEvent", executor |-> 1]
        /\ eret[t] = [status |-> "ok", event |-> 1]
        /\ events_[2] = 2

\* C39: when event.Init() fails Initialize returns Internal and makes no
\* entry; as long as a context has no entry GetEvent for it returns
\* Internal, and Initialize for it goes on to make an event.
C39_FailedInitializeLeavesNoEntry ==
    [][\A t \in EvThreads :
          LET e == ecall[t].executor
          IN /\ (ReturnsFrom(t, "Initialize") /\ eret'[t] = InternalError)
                  => /\ events_' = events_
                     /\ created' = created
                     /\ e \notin Initialized
             /\ (ReturnsFrom(t, "GetEvent") /\ e \notin Initialized)
                  => eret'[t] = InternalError
             /\ (epc[t] = "init_contains" /\ epc'[t] # epc[t]
                    /\ e \notin Initialized)
                  => epc'[t] = "init_event"]_vars

\* Initialize has failed for a context in one thread; the other thread,
\* which took the mutex after that, is about to make the event of the
\* same context.
C39_Witness ==
    \E t, u \in EvThreads :
        /\ ecall[t].op = "Initialize"
        /\ epc[t] = "idle"
        /\ eret[t] = InternalError
        /\ ecall[u] = ecall[t]
        /\ epc[u] = "init_event"
        /\ ecall[t].executor \notin Initialized

\* =====================================================================
\* Part IV: MaybeRegisterBuffers
\* =====================================================================

\* The calls of MaybeRegisterBuffers that are followed.
MaxRegCalls == 2

\* buffers.size()
OperandCounts == {0, 1, 2}

kCollectiveMemorySpaceColor == 1

\* Host threads that call MaybeRegisterBuffers.
RegThreads == {1, 2}

\* device_ordinal
DeviceOrdinals == {0, 1}

\* NcclApi::NcclCommHandle
Comms == {1, 2}

\* The (device_ordinal, comm) of the calls: two communicators of device 0,
\* and the first of them on device 1 as well.
RegPairs == {<<0, 1>>, <<0, 2>>, <<1, 1>>}

\* DeviceBufferPair: the buffers at addresses 1 and 2 are in the
\* collective memory space, the buffer at address 3 is not.
MemorySpace(buffer) == IF buffer \in {1, 2} THEN 1 ELSE 0

DeviceBufferPairs ==
    {[source_buffer |-> src, destination_buffer |-> dst,
      source_memory_space |-> MemorySpace(src),
      destination_memory_space |-> MemorySpace(dst)] :
        src \in {1, 3}, dst \in {2, 3}}

BufferLists == UNION {[1..n -> DeviceBufferPairs] : n \in OperandCounts}

\* nccl_api->RegisterBuffer(comm, buffer): the handle it returns.
RegisterBuffer(comm, buffer) == <<comm, buffer>>

\* handles = {handle}: the handles so far are dropped.
PushBack_Overwrite(vec, handle) == <<handle>>

\* all_registered.handles.push_back(handle)
PushBack(vec, handle) == Append(vec, handle)

\* The insert left out: the pair is never marked.
Insert_Nothing(map, device, comm) == map

\* all_registered.per_device_comms[device_ordinal].insert(comm)
Insert(map, device, comm) == [map EXCEPT ![device] = @ \cup {comm}]

\* The membership test left out: the pair is never found.
IsRegistered_Never(map, device, comm) == FALSE

\* all_registered.per_device_comms[device_ordinal].contains(comm)
IsRegistered(map, device, comm) == comm \in map[device]

\* No mutex: a thread goes on whoever is in the loop.
RegMayLock_Always(t) == TRUE

\* absl::MutexLock lock(&all_registered.mu): thread t goes on when the
\* mutex is free.
RegMayLock(t) == reg_mu = NoThread

NoRegCall == [device |-> 0, comm |-> 0, buffers |-> <<>>]

\* RegisterBuffer was not invoked for a pair yet.
NoInvocation == [n |-> 0, ok |-> 0, calls |-> 0, ok_calls |-> 0]

RegInit ==
    /\ per_device_comms = [d \in DeviceOrdinals |-> {}]
    /\ handles = <<>>
    /\ reg_mu = NoThread
    /\ rpc = [t \in RegThreads |-> "idle"]
    /\ rcall = [t \in RegThreads |-> NoRegCall]
    /\ ri = [t \in RegThreads |-> 1]
    /\ rret = [t \in RegThreads |-> "none"]
    /\ rcount = [t \in RegThreads |-> 0]
    /\ rafter = [t \in RegThreads |-> "none"]
    /\ returned = {}
    /\ nreg = 0
    /\ invoked = [pair \in RegPairs |-> NoInvocation]
    /\ RdvIdle
    /\ ResIdle
    /\ EvIdle
    /\ ExIdle
    /\ LaterIdle

\* The source buffers of a call that are in the collective memory space.
CollectiveSources(buffers) ==
    {buffers[i].source_buffer : i \in
        {j \in 1..Len(buffers) :
            buffers[j].source_memory_space = kCollectiveMemorySpaceColor}}

\* How the calls before this one that had the same device, communicator
\* and collective-memory source buffer returned.
EarlierCalls(device, comm, buffers) ==
    LET statuses == {r[4] : r \in {q \in returned :
                        /\ q[1] = device
                        /\ q[2] = comm
                        /\ q[3] \in CollectiveSources(buffers)}}
    IN IF "ok" \in statuses THEN "ok"
       ELSE IF statuses # {} THEN "error"
       ELSE "none"

\* Thread t calls MaybeRegisterBuffers and comes to the MutexLock.
RegisterCall(t) ==
    /\ rpc[t] = "idle"
    /\ nreg < MaxRegCalls
    /\ nreg' = nreg + 1
    /\ rpc' = [rpc EXCEPT ![t] = "lock"]
    /\ rret' = [rret EXCEPT ![t] = "none"]
    /\ rcount' = [rcount EXCEPT ![t] = 0]
    /\ rafter' = [rafter EXCEPT ![t] = "none"]
    /\ UNCHANGED <<per_device_comms, handles, reg_mu, rcall, ri, returned,
                   invoked, notReg>>

\* absl::MutexLock lock(&all_registered.mu); i = 0.  The arguments
\* (device_ordinal, buffers, comm) of the call are read from here on.
RegisterLock(t, device, comm, buffers) ==
    /\ rpc[t] = "lock"
    /\ RegMayLock(t)
    /\ reg_mu' = t
    /\ rcall' = [rcall EXCEPT ![t] = [device |-> device, comm |-> comm,
                                      buffers |-> buffers]]
    /\ rafter' = [rafter EXCEPT ![t] = EarlierCalls(device, comm, buffers)]
    /\ ri' = [ri EXCEPT ![t] = 1]
    /\ rpc' = [rpc EXCEPT ![t] = "loop"]
    /\ UNCHANGED <<per_device_comms, handles, rret, rcount, returned, nreg,
                   invoked, notReg>>

\* The call of thread t returns status; the MutexLock goes out of scope.
RegisterReturn(t, status) ==
    /\ rret' = [rret EXCEPT ![t] = status]
    /\ returned' = returned \cup
           {<<rcall[t].device, rcall[t].comm, b, status>> :
               b \in CollectiveSources(rcall[t].buffers)}
    /\ reg_mu' = IF reg_mu = t THEN NoThread ELSE reg_mu
    /\ rpc' = [rpc EXCEPT ![t] = "idle"]
    /\ rcall' = [rcall EXCEPT ![t] = NoRegCall]
    /\ ri' = [ri EXCEPT ![t] = 1]
    /\ UNCHANGED rafter

\* Thread t goes from one place of the loop to another.
RegisterGoto(t, place, i) ==
    /\ rpc' = [rpc EXCEPT ![t] = place]
    /\ ri' = [ri EXCEPT ![t] = i]
    /\ UNCHANGED <<rret, returned, reg_mu, rcall, rafter>>

\* RegisterBuffer is invoked once more in the call of thread t, for the
\* pair of that call; ok: the invocation succeeds.  A call is counted
\* with its first invocation, and with its first invocation that
\* succeeds (an invocation that fails ends the call).
CountInvocation(t, ok) ==
    LET pair == <<rcall[t].device, rcall[t].comm>>
        first == rcount[t] = 0
    IN /\ rcount' = [rcount EXCEPT ![t] = @ + 1]
       /\ invoked' = [invoked EXCEPT ![pair] =
              [n |-> @.n + 1,
               ok |-> @.ok + (IF ok THEN 1 ELSE 0),
               calls |-> @.calls + (IF first THEN 1 ELSE 0),
               ok_calls |-> @.ok_calls + (IF first /\ ok THEN 1 ELSE 0)]]

\* The head of the loop: i < buffers.size(), and the membership test of
\* operand i; after the loop OkStatus is returned.
RegisterLoop(t) ==
    /\ rpc[t] = "loop"
    /\ IF ri[t] > Len(rcall[t].buffers)
       THEN RegisterReturn(t, "ok")
       ELSE IF IsRegistered(per_device_comms, rcall[t].device, rcall[t].comm)
       THEN RegisterGoto(t, "loop", ri[t] + 1)
       ELSE RegisterGoto(t, "source", ri[t])
    /\ UNCHANGED <<per_device_comms, handles, rcount, nreg, invoked,
                   notReg>>

\* RegisterBuffer(comm, buffer) is invoked by thread t, and then: the
\* handle is pushed and the pair inserted, and the call goes on at place,
\* or the failure of RegisterBuffer is returned at once.
RegisterOrReturn(t, buffer, place, i) ==
    /\ \E registered \in BOOLEAN :
          /\ CountInvocation(t, registered)
          /\ IF registered
             THEN /\ handles' = PushBack(handles,
                                    RegisterBuffer(rcall[t].comm, buffer))
                  /\ per_device_comms' = Insert(per_device_comms,
                                                rcall[t].device, rcall[t].comm)
                  /\ RegisterGoto(t, place, i)
             ELSE /\ RegisterReturn(t, "error")
                  /\ UNCHANGED <<handles, per_device_comms>>

\* Operand i, source buffer: registered when it is in the collective
\* memory space.
RegisterSource(t) ==
    LET buffer == rcall[t].buffers[ri[t]]
    IN /\ rpc[t] = "source"
       /\ IF buffer.source_memory_space = kCollectiveMemorySpaceColor
          THEN RegisterOrReturn(t, buffer.source_buffer, "destination", ri[t])
          ELSE /\ RegisterGoto(t, "destination", ri[t])
               /\ UNCHANGED <<rcount, invoked, handles, per_device_comms>>
       /\ UNCHANGED <<nreg, notReg>>

\* Operand i, destination buffer, and ++i.
RegisterDestination(t) ==
    LET buffer == rcall[t].buffers[ri[t]]
    IN /\ rpc[t] = "destination"
       /\ IF buffer.destination_memory_space = kCollectiveMemorySpaceColor
          THEN RegisterOrReturn(t, buffer.destination_buffer, "loop",
                                ri[t] + 1)
          ELSE /\ RegisterGoto(t, "loop", ri[t] + 1)
               /\ UNCHANGED <<rcount, invoked, handles, per_device_comms>>
       /\ UNCHANGED <<nreg, notReg>>

RegNext ==
    \/ \E t \in RegThreads : RegisterCall(t)
    \/ \E t \in RegThreads, pair \in RegPairs, buffers \in BufferLists :
          RegisterLock(t, pair[1], pair[2], buffers)
    \/ \E t \in RegThreads : RegisterLoop(t)
    \/ \E t \in RegThreads : RegisterSource(t)
    \/ \E t \in RegThreads : RegisterDestination(t)

SpecRegister == RegInit /\ [][RegNext]_vars

\* ---------------------------------------------------------------------
\* Properties of MaybeRegisterBuffers

\* C18 as stated: a second call with the same device, the same
\* communicator and the same collective-memory source buffer invokes
\* RegisterBuffer zero times.
C18_SecondCallRegistersNothing ==
    \A t \in RegThreads : rafter[t] # "none" => rcount[t] = 0

\* C18: a call with the same device, the same communicator and the same
\* collective-memory source buffer as an earlier call that returned Ok
\* invokes RegisterBuffer zero times.
C18_CallAfterOkRegistersNothing ==
    \A t \in RegThreads : rafter[t] = "ok" => rcount[t] = 0

\* The second call has gone through all its operands and returned Ok.
C18_Witness ==
    \E t \in RegThreads :
        /\ rafter[t] = "ok"
        /\ rpc[t] = "idle"
        /\ rret[t] = "ok"
        /\ rcount[t] = 0
        /\ nreg = 2

\* vec is the beginning of longer.
IsPrefix(vec, longer) ==
    /\ Len(vec) <= Len(longer)
    /\ \A i \in 1..Len(vec) : longer[i] = vec[i]

\* C19: the registration table grows monotonically: over any sequence of
\* calls no (device, communicator) entry and no registration handle that
\* was in the table is removed.
C19_TableGrowsMonotonically ==
    [][/\ \A d \in DeviceOrdinals :
             per_device_comms[d] \subseteq per_device_comms'[d]
       /\ IsPrefix(handles, handles')]_vars

\* Communicators of two devices are registered, by separate calls, after
\* a call that failed.
C19_Witness ==
    /\ per_device_comms[0] # {}
    /\ per_device_comms[1] # {}
    /\ Len(handles) >= 3
    /\ nreg = 2

\* C31 as stated: of the calls with one device and one communicator,
\* only one invokes RegisterBuffer for that pair.
C31_OnlyOneCallInvokes ==
    \A pair \in RegPairs : invoked[pair].calls <= 1

\* C31: the membership test and the registration are one critical
\* section: a call begins to invoke RegisterBuffer for a (device,
\* communicator) pair only while the pair is not in the table, so
\* RegisterBuffer succeeds for the pair in at most one of the calls.
C31_OneCallRegistersThePair ==
    /\ [](\A pair \in RegPairs : invoked[pair].ok_calls <= 1)
    /\ [][\A pair \in RegPairs :
             invoked'[pair].calls > invoked[pair].calls
                 => ~IsRegistered(per_device_comms, pair[1], pair[2])]_vars

\* A second call has found the pair in the table at an operand whose
\* source buffer is in the collective memory space, after the one call
\* that registered has returned.
C31_Witness ==
    \E t \in RegThreads, u \in RegThreads :
        /\ t # u
        /\ rpc[u] = "idle" /\ rret[u] = "ok" /\ rcount[u] > 0
        /\ rpc[t] = "loop" /\ ri[t] > 1 /\ rcount[t] = 0
        /\ rcall[t].buffers[1].source_memory_space
               = kCollectiveMemorySpaceColor
        /\ invoked[<<rcall[t].device, rcall[t].comm>>].calls = 1
        /\ invoked[<<rcall[t].device, rcall[t].comm>>].ok_calls = 1

\* Operand i of a call has a buffer in the collective memory space.
HasCollectiveBuffer(buffers, i) ==
    \/ buffers[i].source_memory_space = kCollectiveMemorySpaceColor
    \/ buffers[i].destination_memory_space = kCollectiveMemorySpaceColor

\* No invocation of RegisterBuffer for the pair has failed.
AllSucceeded(pair) == invoked[pair].n = invoked[pair].ok

\* C32: while no RegisterBuffer invocation for a (device, communicator)
\* pair has failed, RegisterBuffer is invoked at most twice for the pair
\* and by one call only; every invocation is for a buffer of the first
\* operand of its call that has a buffer in the collective memory space;
\* and a pair is in the table only after an invocation for it succeeded.
C32_AtMostTwoRegistrationsPerPair ==
    /\ [](\A pair \in RegPairs :
             /\ AllSucceeded(pair)
                   => invoked[pair].n <= 2 /\ invoked[pair].calls <= 1
             /\ IsRegistered(per_device_comms, pair[1], pair[2])
                   => invoked[pair].ok >= 1)
    /\ [][\A t \in RegThreads :
             rcount'[t] > rcount[t]
                 => /\ HasCollectiveBuffer(rcall[t].buffers, ri[t])
                    /\ \A j \in 1..(ri[t] - 1) :
                          ~HasCollectiveBuffer(rcall[t].buffers, j)]_vars

\* Both buffers of the first collective-memory operand of one call were
\* registered, and a later call with two such operands for the same pair
\* has come to the end of its loop without an invocation.
C32_Witness ==
    \E t \in RegThreads :
        LET pair == <<rcall[t].device, rcall[t].comm>>
        IN /\ rpc[t] = "loop"
           /\ Len(rcall[t].buffers) = 2
           /\ ri[t] = 3
           /\ rcount[t] = 0
           /\ \A i \in 1..2 : HasCollectiveBuffer(rcall[t].buffers, i)
           /\ invoked[pair] = [n |-> 2, ok |-> 2, calls |-> 1,
                               ok_calls |-> 1]

\* C35: when RegisterBuffer fails in a call of MaybeRegisterBuffers, the
\* call returns the error and its (device, communicator) pair is not in
\* the table, so that a later call for the pair registers again.
C35_FailedCallLeavesPairUnmarked ==
    [][\A t \in RegThreads :
          (rpc[t] # "idle" /\ rpc'[t] = "idle" /\ rret'[t] = "error")
              => ~IsRegistered(per_device_comms', rcall[t].device,
                               rcall[t].comm)]_vars

\* =====================================================================
\* Part V: NcclCollectiveThunk::Initialize and ExecuteOnStream
\* =====================================================================

\* The calls of ExecuteOnStream that are followed.
MaxExecutes == 3

\* IsAsync(): the thunk has its AsyncEvents.
IsAsync == ~is_sync

\* What is enqueued on a stream: the operation, its argument (the stream
\* waited for or the event recorded) and the call that enqueued it.
MainStream == 0
WaitOp(other, c) == [op |-> "wait", arg |-> other, call |-> c]
CollectiveOp(c) == [op |-> "collective", arg |-> 0, call |-> c]
RecordOp(ev, c) == [op |-> "record", arg |-> ev, call |-> c]
WaitEventOp(ev, c) == [op |-> "wait_event", arg |-> ev, call |-> c]

\* The wait for the main stream left out.
ThenWaitFor_Nothing(stream, other, c) == stream

\* async_stream.ThenWaitFor(params.stream)
ThenWaitFor(stream, other, c) == Append(stream, WaitOp(other, c))

\* RunNcclCollective(params, stream, comm) that succeeds: the primitive
\* is enqueued on the stream.
RunNcclCollective(stream, c) == Append(stream, CollectiveOp(c))

\* The record of the completion event left out.
ThenRecordEvent_Nothing(stream, ev, c) == stream

\* async_stream.ThenRecordEvent(event)
ThenRecordEvent(stream, ev, c) == Append(stream, RecordOp(ev, c))

\* The stages of ExecuteOnStream that can fail, and the status each
\* returns when it does: GetNcclComm, RunNcclCollective, GetEvent,
\* BlockHostUntilDone.
CommError == "GetNcclComm failed"
RunError == "RunNcclCollective failed"
EventError == "Internal"
BlockError == "BlockHostUntilDone failed"

\* Stage s is attempted by the host thread of executor e.
Attempt(e, s) == xstages' = [xstages EXCEPT ![e] = Append(@, s)]

ExInit ==
    /\ is_sync \in BOOLEAN
    /\ first_call_to_execute_ = TRUE
    /\ xpc = [e \in Executors |-> "idle"]
    /\ xcall = [e \in Executors |-> 0]
    /\ xret = [e \in Executors |-> "none"]
    /\ main_stream = [e \in Executors |-> <<>>]
    /\ async_stream = [e \in Executors |-> <<>>]
    /\ host_blocks = [e \in Executors |-> {}]
    /\ xafter = [e \in Executors |-> "none"]
    /\ completed = "none"
    /\ done_for = [e \in Executors |-> 0]
    /\ nexec = 0
    /\ xstages = [e \in Executors |-> <<>>]
    /\ xfirst = [e \in Executors |-> 0]
    /\ xinit = [e \in Executors |-> "none"]
    /\ events_ = [e \in Executors |-> NoEvent]
    /\ created = <<>>
    /\ mu_ = NoThread
    /\ epc = <<>>
    /\ ecall = <<>>
    /\ eret = <<>>
    /\ ok_inits = <<>>
    /\ RdvIdle
    /\ ResIdle
    /\ RegIdle
    /\ LaterIdle

\* The host thread left in the stage that returned.
ExecuteReturn_StayInStage(e, status) ==
    /\ xret' = [xret EXCEPT ![e] = status]
    /\ xpc' = xpc
    /\ completed' = IF status = "ok" \/ completed = "ok" THEN "ok" ELSE "error"

\* ExecuteOnStream of executor e returns status.
ExecuteReturn(e, status) ==
    /\ xret' = [xret EXCEPT ![e] = status]
    /\ xpc' = [xpc EXCEPT ![e] = "idle"]
    /\ completed' = IF status = "ok" \/ completed = "ok" THEN "ok" ELSE "error"

\* Initialize returns status to the host thread of executor e.
InitializeReturn(e, status) == xinit' = [xinit EXCEPT ![e] = status]

\* What Initialize leaves alone.
notInitialize ==
    <<is_sync, first_call_to_execute_, xpc, xcall, xret, main_stream,
      async_stream, host_blocks, xafter, completed, done_for, nexec, xstages,
      xfirst, mu_, epc, ecall, eret, ok_inits, notEx>>

\* Initialize that asks for the completion event whether or not the thunk
\* has its AsyncEvents.
ThunkInitialize_AlwaysCreates(e) ==
    /\ xpc[e] = "idle"
    /\ IF ~Contains(events_, e)
       THEN /\ created' = Append(created, e)
            /\ events_' = TryEmplace(events_, e, Len(created) + 1)
       ELSE UNCHANGED <<created, events_>>
    /\ InitializeReturn(e, "ok")
    /\ UNCHANGED notInitialize

\* NcclCollectiveThunk::Initialize(params) by the host thread of executor
\* e: AsyncEvents::Initialize(params.executor) when the thunk has its
\* AsyncEvents, in one piece under mu_, and the status of that; OkStatus
\* otherwise.
ThunkInitialize(e) ==
    /\ xpc[e] = "idle"
    /\ IF IsAsync /\ ~Contains(events_, e)
       THEN \E init_ok \in BOOLEAN :
              IF init_ok
              THEN /\ created' = Append(created, e)
                   /\ events_' = TryEmplace(events_, e, Len(created) + 1)
                   /\ InitializeReturn(e, "ok")
              ELSE /\ InitializeReturn(e, "Internal")
                   /\ UNCHANGED <<created, events_>>
       ELSE /\ InitializeReturn(e, "ok")
            /\ UNCHANGED <<created, events_>>
    /\ UNCHANGED notInitialize

\* ExecuteOnStream(params) is called by the host thread of executor e.
ExecuteCall(e) ==
    /\ xpc[e] = "idle"
    /\ nexec < MaxExecutes
    /\ nexec' = nexec + 1
    /\ xcall' = [xcall EXCEPT ![e] = nexec + 1]
    /\ xret' = [xret EXCEPT ![e] = "none"]
    /\ xpc' = [xpc EXCEPT ![e] = "comm"]
    /\ xafter' = [xafter EXCEPT ![e] = completed]
    /\ xstages' = [xstages EXCEPT ![e] = <<>>]
    /\ xfirst' = [xfirst EXCEPT ![e] = IF @ = 0 THEN nexec + 1 ELSE @]
    /\ UNCHANGED <<xinit, is_sync, first_call_to_execute_, main_stream, async_stream,
                   host_blocks, completed, done_for, evVars, notEx>>

\* TF_ASSIGN_OR_RETURN(comm, GetNcclComm(...)), and on the async path
\* async_stream.ThenWaitFor(params.stream).
ExecuteGetComm(e) ==
    /\ xpc[e] = "comm"
    /\ Attempt(e, "comm")
    /\ \E comm_ok \in BOOLEAN :
          IF comm_ok
          THEN /\ async_stream' =
                     IF IsAsync
                     THEN [async_stream EXCEPT ![e] =
                              ThenWaitFor(@, MainStream, xcall[e])]
                     ELSE async_stream
               /\ xpc' = [xpc EXCEPT ![e] = "run"]
               /\ UNCHANGED <<xret, completed>>
          ELSE /\ ExecuteReturn(e, CommError)
               /\ UNCHANGED async_stream
    /\ UNCHANGED <<xinit, is_sync, first_call_to_execute_, xcall, main_stream,
                   host_blocks, xafter, done_for, nexec, xfirst, evVars, notEx>>

\* TF_RETURN_IF_ERROR(RunNcclCollective(params, stream, *comm)) on the
\* async stream or on the main stream.
ExecuteRun(e) ==
    /\ xpc[e] = "run"
    /\ Attempt(e, "run")
    /\ \E run_ok \in BOOLEAN :
          IF run_ok
          THEN /\ IF IsAsync
                  THEN /\ async_stream' = [async_stream EXCEPT ![e] =
                              RunNcclCollective(@, xcall[e])]
                       /\ UNCHANGED main_stream
                  ELSE /\ main_stream' = [main_stream EXCEPT ![e] =
                              RunNcclCollective(@, xcall[e])]
                       /\ UNCHANGED async_stream
               /\ xpc' = [xpc EXCEPT ![e] = IF IsAsync THEN "event"
                                             ELSE "first"]
               /\ UNCHANGED <<xret, completed>>
          ELSE /\ ExecuteReturn(e, RunError)
               /\ UNCHANGED <<main_stream, async_stream>>
    /\ UNCHANGED <<xinit, is_sync, first_call_to_execute_, xcall, host_blocks, xafter,
                   done_for, nexec, xfirst, evVars, notEx>>

\* TF_ASSIGN_OR_RETURN(event, async_events_->GetEvent(executor));
\* async_stream.ThenRecordEvent(event).
ExecuteRecord(e) ==
    LET map == AfterFind(events_, e)
    IN /\ xpc[e] = "event"
       /\ Attempt(e, "event")
       /\ events_' = map
       /\ IF map[e] = NoEvent
          THEN /\ ExecuteReturn(e, EventError)
               /\ UNCHANGED async_stream
          ELSE /\ async_stream' = [async_stream EXCEPT ![e] =
                      ThenRecordEvent(@, map[e], xcall[e])]
               /\ xpc' = [xpc EXCEPT ![e] = "first"]
               /\ UNCHANGED <<xret, completed>>
       /\ UNCHANGED <<xinit, is_sync, first_call_to_execute_, xcall, main_stream,
                      host_blocks, xafter, done_for, nexec, xfirst, mu_, epc, ecall,
                      eret, created, ok_inits, notEx>>

\* The member cleared where it is read, before the host is blocked.
ExecuteFirstCall_ClearsEarly(e) ==
    /\ xpc[e] = "first"
    /\ IF first_call_to_execute_
       THEN /\ xpc' = [xpc EXCEPT ![e] = "block"]
            /\ UNCHANGED <<xret, completed>>
       ELSE ExecuteReturn(e, "ok")
    /\ first_call_to_execute_' = FALSE
    /\ UNCHANGED <<xinit, is_sync, xcall, main_stream,
                   async_stream, host_blocks, xafter, done_for, nexec, xfirst,
                   xstages, evVars, notEx>>

\* if (first_call_to_execute_): the member is read.
ExecuteFirstCall(e) ==
    /\ xpc[e] = "first"
    /\ IF first_call_to_execute_
       THEN /\ xpc' = [xpc EXCEPT ![e] = "block"]
            /\ UNCHANGED <<xret, completed>>
       ELSE ExecuteReturn(e, "ok")
    /\ UNCHANGED <<xinit, is_sync, first_call_to_execute_, xcall, main_stream,
                   async_stream, host_blocks, xafter, done_for, nexec, xfirst, xstages,
                   evVars, notEx>>

\* The member left as it was after the host was blocked.
ClearFirstCall_Forgotten == first_call_to_execute_

\* first_call_to_execute_ = false
ClearFirstCall == FALSE

\* TF_RETURN_IF_ERROR(stream->BlockHostUntilDone());
\* first_call_to_execute_ = false.
ExecuteBlock(e) ==
    /\ xpc[e] = "block"
    /\ Attempt(e, "block")
    /\ \E block_ok \in BOOLEAN :
          IF block_ok
          THEN /\ host_blocks' = [host_blocks EXCEPT ![e] = @ \cup {xcall[e]}]
               /\ first_call_to_execute_' = ClearFirstCall
               /\ ExecuteReturn(e, "ok")
          ELSE /\ ExecuteReturn(e, BlockError)
               /\ UNCHANGED <<host_blocks, first_call_to_execute_>>
    /\ UNCHANGED <<xinit, is_sync, xcall, main_stream, async_stream, xafter, done_for,
                   nexec, xfirst, evVars, notEx>>

\* The Done step follows Executing in the life of an invocation: it is run
\* by the host thread of executor e once, after its ExecuteOnStream
\* returned Ok.
MayRunDone(e) ==
    /\ xcall[e] > 0
    /\ xret[e] = "ok"
    /\ done_for[e] # xcall[e]

\* params.stream->ThenWaitFor(event)
ThenWaitForEvent(stream, ev, c) == Append(stream, WaitEventOp(ev, c))

\* NcclCollectiveDoneThunk::ExecuteOnStream(params) by the host thread of
\* executor e: GetEvent(executor), then the main stream waits for the event.
DoneExecuteOnStream(e) ==
    LET map == AfterFind(events_, e)
    IN /\ xpc[e] = "idle"
       /\ IsAsync
       /\ MayRunDone(e)
       /\ events_' = map
       /\ done_for' = [done_for EXCEPT ![e] = xcall[e]]
       /\ main_stream' =
             IF map[e] = NoEvent THEN main_stream
             ELSE [main_stream EXCEPT ![e] =
                      ThenWaitForEvent(@, map[e], xcall[e])]
       /\ UNCHANGED <<xinit, is_sync, first_call_to_execute_, xpc, xcall, xret,
                      async_stream, host_blocks, xafter, completed, nexec, xfirst,
                      xstages, mu_, epc, ecall, eret, created, ok_inits,
                      notEx>>

ExNext ==
    \/ \E e \in Executors : DoneExecuteOnStream(e)
    \/ \E e \in Executors : ThunkInitialize(e)
    \/ \E e \in Executors : ExecuteCall(e)
    \/ \E e \in Executors : ExecuteGetComm(e)
    \/ \E e \in Executors : ExecuteRun(e)
    \/ \E e \in Executors : ExecuteRecord(e)
    \/ \E e \in Executors : ExecuteFirstCall(e)
    \/ \E e \in Executors : ExecuteBlock(e)

SpecExecute == ExInit /\ [][ExNext]_vars

\* ---------------------------------------------------------------------
\* Properties of ExecuteOnStream

\* On stream q every primitive comes right after the wait for the main
\* stream of its call, and every recorded event right after the primitive
\* of its call.
WaitThenCollectiveThenRecord(q) ==
    \A i \in 1..Len(q) :
        /\ q[i].op = "collective"
             => i > 1 /\ q[i - 1] = WaitOp(MainStream, q[i].call)
        /\ q[i].op = "record"
             => i > 1 /\ q[i - 1] = CollectiveOp(q[i].call)

\* The last call of executor e returned Ok and its wait, primitive and
\* recorded event are the last three operations of stream q.
EnqueuedAll(e, q) ==
    /\ Len(q) >= 3
    /\ q[Len(q) - 2] = WaitOp(MainStream, xcall[e])
    /\ q[Len(q) - 1] = CollectiveOp(xcall[e])
    /\ q[Len(q)] = RecordOp(events_[e], xcall[e])

\* C20: for an asynchronous collective ExecuteOnStream enqueues, on the
\* dedicated async stream and in this order, the wait for the main
\* stream, the collective primitive and the recording of the context's
\* completion event: never the primitive before the wait, never the event
\* before the primitive.
C20_AsyncEnqueueOrder ==
    IsAsync
    => \A e \in Executors :
          /\ \A i \in 1..Len(main_stream[e]) :
                 main_stream[e][i].op # "collective"
          /\ WaitThenCollectiveThenRecord(async_stream[e])
          /\ (xcall[e] > 0 /\ xret[e] = "ok")
               => EnqueuedAll(e, async_stream[e])

\* Both executors have enqueued an asynchronous collective, one of them
\* after a call of its own that did not get to the end.
C20_Witness ==
    /\ IsAsync
    /\ \A e \in Executors : xret[e] = "ok" /\ EnqueuedAll(e, async_stream[e])
    /\ \E e \in Executors : Len(async_stream[e]) \in {4, 5}

\* The host thread of executor e is blocked, or was, in the call it is in
\* or made last.
BlocksHost(e) == xpc[e] = "block" \/ xcall[e] \in host_blocks[e]

\* C21 as stated: the host is blocked in the first execution and in no
\* later one: once an execution has returned, no further call of
\* ExecuteOnStream blocks the host.
C21_OnlyFirstExecutionBlocks ==
    \A e \in Executors : xafter[e] # "none" => ~BlocksHost(e)

\* C21: once an execution has returned Ok, no further call of
\* ExecuteOnStream on the thunk blocks the host.
C21_NoBlockAfterOkExecution ==
    \A e \in Executors : xafter[e] = "ok" => ~BlocksHost(e)

\* A call that began after an execution that blocked the host and returned
\* Ok has itself returned Ok.
C21_Witness ==
    \E e, f \in Executors :
        /\ xafter[e] = "ok"
        /\ xret[e] = "ok"
        /\ host_blocks[f] # {}
        /\ ~first_call_to_execute_

\* C22: whenever the Done step succeeds for a context, the event it makes
\* the main stream wait for is the completion event that an earlier
\* asynchronous ExecuteOnStream of the same thunk recorded on the async
\* stream of that context.
C22_DoneWaitsForRecordedEvent ==
    \A e \in Executors :
        \A i \in 1..Len(main_stream[e]) :
            main_stream[e][i].op = "wait_event"
            => /\ main_stream[e][i].arg = events_[e]
               /\ \E j \in 1..Len(async_stream[e]) :
                      async_stream[e][j] =
                          RecordOp(main_stream[e][i].arg,
                                   main_stream[e][i].call)

\* Done has succeeded on both contexts, on one of them twice.
C22_Witness ==
    /\ \A e \in Executors : done_for[e] > 0 /\ Len(main_stream[e]) > 0
    /\ \E e \in Executors : Len(main_stream[e]) = 2

\* The stages in the order ExecuteOnStream goes through them, and the
\* status a stage returns when it fails.
StageOrder == <<"comm", "run", "event", "block">>
StageIndex(s) == CHOOSE i \in 1..Len(StageOrder) : StageOrder[i] = s
StageError(s) ==
    CASE s = "comm" -> CommError
      [] s = "run" -> RunError
      [] s = "event" -> EventError
      [] s = "block" -> BlockError

\* The operations call c of executor e has enqueued.
OpsOfCall(e, c) ==
    {o.op : o \in {p \in Range(main_stream[e]) \cup Range(async_stream[e]) :
                      p.call = c /\ p.op # "wait_event"}}

\* What the stages up to stage number n enqueue when they succeed.
OpsUpTo(n) ==
    (IF n >= 1 /\ IsAsync THEN {"wait"} ELSE {})
    \cup (IF n >= 2 THEN {"collective"} ELSE {})
    \cup (IF n >= 3 /\ IsAsync THEN {"record"} ELSE {})

\* The call executor e is in, or made last, has failed.
Failed(e) == xpc[e] = "idle" /\ xret[e] \notin {"none", "ok"}

\* C24: when a stage of ExecuteOnStream fails (GetNcclComm,
\* RunNcclCollective, GetEvent, BlockHostUntilDone on the first call) the
\* call returns the error of that stage and runs no stage after it, and
\* no stage is attempted again: within one call the stages are attempted
\* in their order, each at most once.
C24_FailedStageEndsTheCall ==
    \A e \in Executors :
        /\ \A i, j \in 1..Len(xstages[e]) :
               i < j => StageIndex(xstages[e][i]) < StageIndex(xstages[e][j])
        /\ Failed(e)
             => /\ xstages[e] # <<>>
                /\ xret[e] = StageError(xstages[e][Len(xstages[e])])
                /\ OpsOfCall(e, xcall[e])
                     = OpsUpTo(StageIndex(xstages[e][Len(xstages[e])]) - 1)
                /\ xcall[e] \notin host_blocks[e]

\* A call has failed in its last stage, after the three before it; a call
\* of the other executor has failed in an earlier stage.
C24_Witness ==
    \E e, f \in Executors :
        /\ Failed(e)
        /\ xret[e] = BlockError
        /\ Len(xstages[e]) = 4
        /\ Failed(f)
        /\ xret[f] \in {RunError, EventError}

\* The first call of the host thread of executor e has returned Ok.
FirstCallReturnedOk(e) ==
    /\ xcall[e] > 0
    /\ xcall[e] = xfirst[e]
    /\ xpc[e] = "idle"
    /\ xret[e] = "ok"

\* C28: when several device threads execute the same thunk, no device
\* thread returns from its own first ExecuteOnStream without having
\* blocked the host on its issuing stream.
C28_EveryThreadBlocksInItsFirstCall ==
    \A e \in Executors : FirstCallReturnedOk(e) => xcall[e] \in host_blocks[e]

\* C34: for a synchronous thunk Initialize returns Ok and creates no
\* completion event, and ExecuteOnStream enqueues the primitive on the
\* main stream and nothing else: the async stream gets no wait and no
\* primitive, and no completion event is recorded.
C34_SyncUsesMainStreamOnly ==
    is_sync
    => /\ created = <<>>
       /\ \A e \in Executors :
             /\ xinit[e] \in {"none", "ok"}
             /\ events_[e] = NoEvent
             /\ async_stream[e] = <<>>
             /\ \A i \in 1..Len(main_stream[e]) :
                    main_stream[e][i].op = "collective"
             /\ (xcall[e] > 0 /\ xret[e] = "ok")
                  => /\ main_stream[e] # <<>>
                     /\ main_stream[e][Len(main_stream[e])]
                           = CollectiveOp(xcall[e])

\* Both executors of a synchronous thunk were initialized and have
\* executed, one of them twice.
C34_Witness ==
    /\ is_sync
    /\ \A e \in Executors :
          xinit[e] = "ok" /\ xret[e] = "ok" /\ xpc[e] = "idle"
    /\ \E e \in Executors : Len(main_stream[e]) = 2

\* C36: an asynchronous ExecuteOnStream on a context without a completion
\* event (Initialize has not succeeded for it) returns Internal with no
\* completion event recorded and without the collective primitive
\* enqueued on the async stream.
C36_UninitializedExecuteEnqueuesNothing ==
    \A e \in Executors :
        (IsAsync /\ Failed(e) /\ xret[e] = EventError)
        => /\ events_[e] = NoEvent
           /\ "record" \notin OpsOfCall(e, xcall[e])
           /\ "collective" \notin OpsOfCall(e, xcall[e])

\* All the stages of the thunk, in their order.
AllStages ==
    IF IsAsync THEN <<"comm", "run", "event", "block">>
    ELSE <<"comm", "run", "block">>

\* The call of executor e returns Ok in this step.
ReturnsOk(e) == xpc[e] # "idle" /\ xpc'[e] = "idle" /\ xret'[e] = "ok"

\* C37: first_call_to_execute_ is cleared only by a call of
\* ExecuteOnStream in which every stage succeeded, the host
\* synchronization among them; and while no call has returned Ok (after
\* any number of failed calls), a call that returns Ok has blocked the
\* host.
C37_MarkerClearedOnlyBySuccess ==
    /\ [][(first_call_to_execute_ /\ ~first_call_to_execute_')
            => \E e \in Executors :
                  /\ ReturnsOk(e)
                  /\ xstages'[e] = AllStages
                  /\ xcall[e] \in host_blocks'[e]]_vars
    /\ [][\A e \in Executors :
             (ReturnsOk(e) /\ completed # "ok")
                 => xcall[e] \in host_blocks'[e]]_vars

\* After a call that failed in BlockHostUntilDone, and no call having
\* returned Ok before it, a call has blocked the host and returned Ok.
C37_Witness ==
    \E e, f \in Executors :
        /\ Failed(f)
        /\ xret[f] = BlockError
        /\ xafter[e] = "error"
        /\ xpc[e] = "idle"
        /\ xret[e] = "ok"
        /\ xcall[e] \in host_blocks[e]
        /\ ~first_call_to_execute_

\* =====================================================================
\* Part VI: the device of one execution context.  The host thread of the
\* context enqueues on the main stream and, through ExecuteOnStream and
\* the Done thunk, on the async stream; the device completes the
\* operations of each stream in the order they were enqueued.
\* =====================================================================

\* The rounds of ExecuteOnStream and Done that are followed.
MaxRounds == 2

\* The work enqueued on the main stream between two steps of the host.
MaxWork == 1

\* The completed_event_ of the main stream and the completion event of
\* the context.
CompletedEvent == 1
CompletionEvent == 2
DevEvents == {CompletedEvent, CompletionEvent}

\* What is on a stream of the device: seq numbers the records of an event,
\* and for a wait it is the record waited for (0: none); tag is the round
\* of a step of the thunk, and for work the phase it was enqueued in.
DevWork(w) == [op |-> "work", ev |-> 0, seq |-> 0, tag |-> w]
DevCollective(k) == [op |-> "collective", ev |-> 0, seq |-> 0, tag |-> k]
DevRecord(ev, n, k) == [op |-> "record", ev |-> ev, seq |-> n, tag |-> k]
DevWait(ev, n, k) == [op |-> "wait_event", ev |-> ev, seq |-> n, tag |-> k]

\* The record an event wait enqueued now waits for: the latest record of
\* the event enqueued so far.
LatestRecord(ev) == issued[ev]

\* The collective enqueued ahead of the wait for the main stream.
AsyncOps_CollectiveFirst(w, c, r) == <<c, w, r>>

\* What an asynchronous ExecuteOnStream enqueues on the async stream: the
\* wait for the main stream, the collective, the record of the completion
\* event.
AsyncOps(w, c, r) == <<w, c, r>>

\* The round of the step the host makes next.
Round == hphase \div 2 + 1

DevInit ==
    /\ dev_init = FALSE
    /\ dev_first = TRUE
    /\ dev_main = <<>>
    /\ dev_async = <<>>
    /\ main_done = 0
    /\ async_done = 0
    /\ issued = [ev \in DevEvents |-> 0]
    /\ fired = [ev \in DevEvents |-> 0]
    /\ hphase = 0
    /\ hblocked = FALSE
    /\ nwork = 0
    /\ RdvIdle
    /\ ResIdle
    /\ EvIdle
    /\ RegIdle
    /\ ExIdle
    /\ OpIdle
    /\ PermIdle
    /\ PipeIdle
    /\ PrepIdle
    /\ LocIdle
    /\ CvIdle

\* Initialize: the completion event of the context is created.
DevInitialize ==
    /\ ~dev_init
    /\ dev_init' = TRUE
    /\ UNCHANGED <<dev_first, dev_main, dev_async, main_done, async_done,
                   issued, fired, hphase, hblocked, nwork>>
    /\ UNCHANGED notDev

\* The host enqueues work of its own on the main stream.
DevEnqueueWork ==
    /\ ~hblocked
    /\ nwork < MaxWork
    /\ dev_main' = Append(dev_main, DevWork(hphase))
    /\ nwork' = nwork + 1
    /\ UNCHANGED <<dev_init, dev_first, dev_async, main_done, async_done,
                   issued, fired, hphase, hblocked>>
    /\ UNCHANGED notDev

\* An asynchronous ExecuteOnStream whose stages succeed.  The wait of the
\* async stream for the main stream is CudaStream::WaitFor(Stream*): the
\* completed_event_ of the main stream is recorded on the main stream and
\* the async stream waits for that record.  On the first call the host
\* is then blocked until the async stream is done.
DevExecuteOnStream ==
    /\ dev_init
    /\ ~hblocked
    /\ hphase % 2 = 0
    /\ Round <= MaxRounds
    /\ LET c == issued[CompletedEvent] + 1
           r == issued[CompletionEvent] + 1
       IN /\ dev_main' = Append(dev_main, DevRecord(CompletedEvent, c, Round))
          /\ dev_async' = dev_async \o
                 AsyncOps(DevWait(CompletedEvent, c, Round),
                          DevCollective(Round),
                          DevRecord(CompletionEvent, r, Round))
          /\ issued' = [issued EXCEPT ![CompletedEvent] = c,
                                      ![CompletionEvent] = r]
    /\ hblocked' = dev_first
    /\ hphase' = hphase + 1
    /\ nwork' = 0
    /\ UNCHANGED <<dev_init, dev_first, main_done, async_done, fired>>
    /\ UNCHANGED notDev

\* stream->BlockHostUntilDone() returns: the async stream is done.
DevUnblockHost ==
    /\ hblocked
    /\ async_done = Len(dev_async)
    /\ hblocked' = FALSE
    /\ dev_first' = FALSE
    /\ UNCHANGED <<dev_init, dev_main, dev_async, main_done, async_done,
                   issued, fired, hphase, nwork>>
    /\ UNCHANGED notDev

\* The Done thunk: the main stream waits for the completion event.
DevDone ==
    /\ dev_init
    /\ ~hblocked
    /\ hphase % 2 = 1
    /\ dev_main' = Append(dev_main,
                          DevWait(CompletionEvent,
                                  LatestRecord(CompletionEvent), Round))
    /\ hphase' = hphase + 1
    /\ nwork' = 0
    /\ UNCHANGED <<dev_init, dev_first, dev_async, main_done, async_done,
                   issued, fired, hblocked>>
    /\ UNCHANGED notDev

\* The device may complete operation o, the next of its stream: a wait
\* for an event holds the stream until the record it waits for is done.
MayComplete(o) == o.op = "wait_event" => fired[o.ev] >= o.seq

\* The events after operation o has completed.
FiredAfter(o) ==
    IF o.op = "record" THEN [fired EXCEPT ![o.ev] = o.seq] ELSE fired

\* The device completes the next operation of the main stream.
DevRunMain ==
    /\ main_done < Len(dev_main)
    /\ MayComplete(dev_main[main_done + 1])
    /\ fired' = FiredAfter(dev_main[main_done + 1])
    /\ main_done' = main_done + 1
    /\ UNCHANGED <<dev_init, dev_first, dev_main, dev_async, async_done,
                   issued, hphase, hblocked, nwork>>
    /\ UNCHANGED notDev

\* The device completes the next operation of the async stream.
DevRunAsync ==
    /\ async_done < Len(dev_async)
    /\ MayComplete(dev_async[async_done + 1])
    /\ fired' = FiredAfter(dev_async[async_done + 1])
    /\ async_done' = async_done + 1
    /\ UNCHANGED <<dev_init, dev_first, dev_main, dev_async, main_done,
                   issued, hphase, hblocked, nwork>>
    /\ UNCHANGED notDev

DevNext ==
    \/ DevInitialize
    \/ DevEnqueueWork
    \/ DevExecuteOnStream
    \/ DevUnblockHost
    \/ DevDone
    \/ DevRunMain
    \/ DevRunAsync

SpecDevice == DevInit /\ [][DevNext]_vars

\* The collective of round k has completed on the device.
CollectiveRan(k) ==
    \E i \in 1..async_done : dev_async[i] = DevCollective(k)

\* Operation i of the main stream is work enqueued in a phase of ws.
IsWorkOf(i, ws) == dev_main[i].op = "work" /\ dev_main[i].tag \in ws

PrimitiveTypes ==
    {"S8", "PRED", "U8", "S32", "U32", "S64", "U64", "F16", "F32", "F64",
     "BF16", "C64", "C128", "S16", "U16", "F8E5M2", "F8E4M3FN",
     "PRIMITIVE_TYPE_INVALID", "S4", "U4", "F8E4M3B11FNUZ", "F8E5M2FNUZ",
     "F8E4M3FNUZ", "TUPLE", "OPAQUE_TYPE", "TOKEN"}

\* The kinds of collective thunk.
ThunkKinds ==
    {"kNcclAllReduce", "kNcclAllReduceStart", "kNcclReduceScatter",
     "kNcclReduceScatterStart", "kNcclAllGather", "kNcclAllGatherStart",
     "kNcclAllToAll", "kNcclAllToAllStart", "kNcclCollectivePermute",
     "kNcclCollectivePermuteStart", "kNcclSend", "kNcclRecv"}

\* IsReductionCollective(kind): the operation reduces.
IsReductionCollective(kind) ==
    kind \in {"kNcclAllReduce", "kNcclAllReduceStart", "kNcclReduceScatter",
              "kNcclReduceScatterStart"}

\* An operand: whether LayoutUtil::IsDenseArray holds of its shape, and
\* its element type.
Shapes == [dense_array : BOOLEAN, element_type : PrimitiveTypes]

\* The narrow types supported for every kind.
IsTypeSupportedByNccl_NarrowAlways(element_type, reduction_op) ==
    element_type \in {"S8", "PRED", "U8", "S32", "U32", "S64", "U64", "F16",
                      "F32", "F64", "BF16", "C64", "C128", "S16", "U16",
                      "F8E5M2", "F8E4M3FN"}

\* IsTypeSupportedByNccl(element_type, reduction_op): the switch.
IsTypeSupportedByNccl(element_type, reduction_op) ==
    CASE element_type \in {"S8", "PRED", "U8", "S32", "U32", "S64", "U64",
                           "F16", "F32", "F64", "BF16", "C64", "C128"}
           -> TRUE
      [] element_type \in {"S16", "U16", "F8E5M2", "F8E4M3FN"}
           -> ~IsReductionCollective(reduction_op)
      [] OTHER -> FALSE

\* The statuses of IsValidOperand.
UnimplementedNotDense ==
    [code |-> "Unimplemented", message |-> "input is not a dense array"]
UnimplementedType ==
    [code |-> "Unimplemented",
     message |-> "element type not suppored by NCCL"]
OkOperand == [code |-> "Ok", message |-> ""]

\* The test of the layout left out.
IsValidOperand_AnyLayout(shape, reduction_op) ==
    IF ~IsTypeSupportedByNccl(shape.element_type, reduction_op)
    THEN UnimplementedType
    ELSE OkOperand

\* IsValidOperand(shape, reduction_op)
IsValidOperand(shape, reduction_op) ==
    IF ~shape.dense_array
    THEN UnimplementedNotDense
    ELSE IF ~IsTypeSupportedByNccl(shape.element_type, reduction_op)
         THEN UnimplementedType
         ELSE OkOperand

OpInit ==
    /\ op_shape \in Shapes
    /\ op_kind \in ThunkKinds
    /\ op_status = <<>>
    /\ RdvIdle
    /\ ResIdle
    /\ EvIdle
    /\ RegIdle
    /\ ExIdle
    /\ DevIdle
    /\ PermIdle
    /\ PipeIdle
    /\ PrepIdle
    /\ LocIdle
    /\ CvIdle

\* The operand is validated for the kind of the thunk.
CallIsValidOperand ==
    /\ op_status = <<>>
    /\ op_status' = <<IsValidOperand(op_shape, op_kind)>>
    /\ UNCHANGED <<op_shape, op_kind>>
    /\ UNCHANGED notOp

OpNext == CallIsValidOperand

SpecOperand == OpInit /\ [][OpNext]_vars

\* The operand was accepted.
Accepted == op_status = <<OkOperand>>

\* The element types of the three cases.
NonReducingOnlyTypes == {"S16", "U16", "F8E5M2", "F8E4M3FN"}
EveryKindTypes ==
    {"S8", "PRED", "U8", "S32", "U32", "S64", "U64", "F16", "F32", "F64",
     "BF16", "C64", "C128"}

\* The kinds that reduce.
ReducingKinds ==
    {"kNcclAllReduce", "kNcclAllReduceStart", "kNcclReduceScatter",
     "kNcclReduceScatterStart"}

\* C25: IsValidOperand accepts a dense operand of type S16, U16, F8E5M2
\* or F8E4M3FN exactly when the kind of the operation is not a reduction;
\* it accepts a dense operand of type S8, PRED, U8, S32, U32, S64, U64,
\* F16, F32, F64, BF16, C64 or C128 for every kind; it rejects every other
\* element type, and every operand that is not dense, for every kind.
C25_OperandAcceptedByTypeAndKind ==
    op_status # <<>>
    => /\ op_status[1] \in {OkOperand, UnimplementedNotDense,
                            UnimplementedType}
       /\ Accepted <=>
             /\ op_shape.dense_array
             /\ \/ op_shape.element_type \in EveryKindTypes
                \/ /\ op_shape.element_type \in NonReducingOnlyTypes
                   /\ op_kind \notin ReducingKinds

\* A dense operand of a 16-bit integer type was rejected for a reduction.
C25_Witness ==
    /\ op_status = <<UnimplementedType>>
    /\ op_shape.dense_array
    /\ op_shape.element_type = "S16"
    /\ op_kind = "kNcclAllReduce"

\* =====================================================================
\* Part VIII: the loop of CollectivePermute_CircularPipelinePreOptimization
\* (collective_pipeline_parallelism_test.cc): in every iteration one
\* collective-permute along the circle of replicas, then the product with
\* the weights.
\* =====================================================================

\* max_iter of while_cond, and the replicas of the test.
max_iter == 3
kNumReplicas == 4

\* The replicas of a run, from 0.
Replicas(n) == 0..(n - 1)

\* A 2x2 matrix is the tuple of its rows; the input A of a replica has
\* its value in every place.
Filled(v) == <<<<v, v>>, <<v, v>>>>
Zeros == Filled(0)

\* input_b_replicated
input_b == <<<<0, 0>>, <<0, 1>>>>

\* dot(lhs, rhs), lhs_contracting_dims={1}, rhs_contracting_dims={0}
Dot(lhs, rhs) ==
    [i \in 1..2 |->
        [j \in 1..2 |-> lhs[i][1] * rhs[1][j] + lhs[i][2] * rhs[2][j]]]

\* The pairs turned round: every replica sends to the one before it.
SourceTargetPairs_Backwards(n) == {<<(i + 1) % n, i>> : i \in Replicas(n)}

\* source_target_pairs={{0,1}, {1,2}, {2,3}, {3,0}}: along the circle.
SourceTargetPairs(n) == {<<i, (i + 1) % n>> : i \in Replicas(n)}

\* The sources replica r receives from.
SourcesOf(pairs, r) == {p[1] : p \in {q \in pairs : q[2] = r}}

\* collective-permute(data): a replica gets the data of its source, and
\* zeros if no pair has it as target.
CollectivePermute(data, pairs) ==
    [r \in DOMAIN data |->
        IF SourcesOf(pairs, r) = {} THEN Zeros
        ELSE data[CHOOSE src \in SourcesOf(pairs, r) : TRUE]]

PermInit ==
    /\ perm_n \in 2..kNumReplicas
    /\ perm_input \in [Replicas(perm_n) -> 1..kNumReplicas]
    /\ perm_data = [r \in Replicas(perm_n) |-> Filled(perm_input[r])]
    /\ perm_iter = 0
    /\ perm_recv = [r \in Replicas(perm_n) |-> {}]
    /\ RdvIdle
    /\ ResIdle
    /\ EvIdle
    /\ RegIdle
    /\ ExIdle
    /\ DevIdle
    /\ OpIdle
    /\ PipeIdle
    /\ PrepIdle
    /\ LocIdle
    /\ CvIdle

\* while_body, on all replicas: cp, matmul, next_iter.
WhileBody ==
    /\ perm_iter < max_iter
    /\ LET cp == CollectivePermute(perm_data, SourceTargetPairs(perm_n))
       IN perm_data' = [r \in Replicas(perm_n) |-> Dot(input_b, cp[r])]
    /\ perm_recv' = [r \in Replicas(perm_n) |->
                        SourcesOf(SourceTargetPairs(perm_n), r)]
    /\ perm_iter' = perm_iter + 1
    /\ UNCHANGED <<perm_n, perm_input>>
    /\ UNCHANGED notPerm

PermNext == WhileBody

SpecPermute == PermInit /\ [][PermNext]_vars

\* The weights applied k times to matrix x.
RECURSIVE Weighted(_, _)
Weighted(k, x) == IF k = 0 THEN x ELSE Dot(input_b, Weighted(k - 1, x))

\* The inputs of the test: replica i has the value i + 1.
TestInputs ==
    /\ perm_n = kNumReplicas
    /\ perm_input = [i \in Replicas(kNumReplicas) |-> i + 1]

\* The second row of results[0] to results[3] the test expects.
ExpectedPermute == <<2, 3, 4, 1>>

\* C26: a collective-permute over N replicas with the circular pairs
\* (i, i+1 mod N), once in every iteration of the loop: after k iterations
\* replica r holds the data that started on replica (r - k) mod N, and in
\* every iteration every replica receives from exactly one source.  For
\* the inputs of the test the results are the expected ones.
C26_CircularPermuteRotatesData ==
    /\ \A r \in Replicas(perm_n) :
          /\ perm_data[r] =
                 Weighted(perm_iter,
                          Filled(perm_input[(r - perm_iter) % perm_n]))
          /\ perm_iter > 0 => Cardinality(perm_recv[r]) = 1
    /\ (TestInputs /\ perm_iter = max_iter)
         => perm_data = [r \in Replicas(kNumReplicas) |->
                            <<<<0, 0>>, <<ExpectedPermute[r + 1],
                                          ExpectedPermute[r + 1]>>>>]

\* The loop of the test has ended.
C26_Witness ==
    /\ TestInputs
    /\ perm_iter = max_iter
    /\ perm_data[0] = <<<<0, 0>>, <<2, 2>>>>
    /\ perm_data[3] = <<<<0, 0>>, <<1, 1>>>>

\* =====================================================================
\* Part IX: the naive pipelines of collective_pipeline_parallelism_test.cc
\* (NaiveDFSMicrobatch4Replica4, NaiveDFSMicrobatch5Replica4,
\* NaiveDFSMicrobatch4CircularRepeat2Replica4,
\* NaiveDFSMicrobatch5CircularRepeat2Replica4): four replicas, each one
\* linear layer, one circular collective-permute in every iteration.
\* =====================================================================

\* The four tests: <<kMicrobatches, circular repeats>>.
PipeTests == {<<4, 1>>, <<5, 1>>, <<4, 2>>, <<5, 2>>}

\* n of while_condition.
LoopBound(m, r) ==
    CASE <<m, r>> = <<4, 1>> -> 7
      [] <<m, r>> = <<5, 1>> -> 8
      [] <<m, r>> = <<4, 2>> -> 11
      [] <<m, r>> = <<5, 2>> -> 13

\* The offset of output_index: c1 with four microbatches, c2 with five.
OutputOffset(m) == IF m = 4 THEN 1 ELSE 2

\* The test with five microbatches and two repeats keeps what the last
\* replica computed in buffer and sends it on from there.
UsesBuffer(m, r) == <<m, r>> = <<5, 2>>

\* A value f32[16] of the loop: every stage scales it, so it is followed
\* by one number, with the microbatch it came from (NoBatch: zeros of a
\* broadcast or of fake_input) and the stages that have computed on it.
NoBatch == 0 - 1
Value(v, mb, path) == [val |-> v, mb |-> mb, path |-> path]
ZeroValue == Value(0, NoBatch, <<>>)

\* weights_r0 .. weights_r3: the scalar matrices of 1.0, 2.0, 3.0, 4.0.
WeightOf(replica) == replica + 1

\* dot(weights, compute_in) on a replica.
DotWeights(replica, x) ==
    IF x.mb = NoBatch THEN ZeroValue
    ELSE Value(WeightOf(replica) * x.val, x.mb, Append(x.path, replica))

\* get_circ_buffer_index(offset, index, size)
get_circ_buffer_index(offset, index, size) ==
    LET t0 == offset + index
        t1 == t0 \div size
        t2 == t1 * size
    IN t0 - t2

\* is_input_replica
is_input_replica(replica) == replica = 0

\* The input read at replica 0 in every iteration.
is_read_input_Always(replica, i, m, r) == is_input_replica(replica)

\* read_input of the tests without repeat; is_read_input(i) of the tests
\* with repeat: the input replica, in the first kMicrobatches iterations.
is_read_input(replica, i, m, r) ==
    IF r = 1 THEN is_input_replica(replica)
    ELSE is_input_replica(replica) /\ i < m

\* is_output_replica of the test that uses it.
is_output_replica(replica) == replica = 3

\* Row m (from 0) of the input of a replica: real_input on replica 0,
\* fake_input on the others.
InputRow(replica, m) ==
    IF replica = 0 THEN Value(pipe_vals[m], m, <<>>) ELSE ZeroValue

PipeInit ==
    /\ \E t \in PipeTests : pipe_m = t[1] /\ pipe_r = t[2]
    /\ pipe_vals \in [0..(pipe_m - 1) -> 1..2]
    /\ pipe_output = [q \in Replicas(4) |-> [m \in 1..pipe_m |-> ZeroValue]]
    /\ pipe_buffer = [q \in Replicas(4) |-> [m \in 1..pipe_m |-> ZeroValue]]
    /\ pipe_tmp = [q \in Replicas(4) |-> ZeroValue]
    /\ pipe_i = 0
    /\ RdvIdle
    /\ ResIdle
    /\ EvIdle
    /\ RegIdle
    /\ ExIdle
    /\ DevIdle
    /\ OpIdle
    /\ PermIdle
    /\ PrepIdle
    /\ LocIdle
    /\ CvIdle

\* while_body of the test, on all replicas.
PipeWhileBody ==
    /\ pipe_i < LoopBound(pipe_m, pipe_r)
    /\ LET i == pipe_i
           input_slice(q) ==
               InputRow(q, get_circ_buffer_index(0, i, pipe_m))
           buffer_slice(q) == pipe_buffer[q][((i + 3) % pipe_m) + 1]
           next_stage_slice(q) ==
               IF UsesBuffer(pipe_m, pipe_r) /\ is_output_replica(q)
               THEN buffer_slice(q)
               ELSE pipe_tmp[q]
           prev_stage_slice ==
               CollectivePermute([q \in Replicas(4) |-> next_stage_slice(q)],
                                 SourceTargetPairs(4))
           compute_in(q) ==
               IF is_read_input(q, i, pipe_m, pipe_r)
               THEN input_slice(q)
               ELSE prev_stage_slice[q]
           compute_out(q) == DotWeights(q, compute_in(q))
           output_index ==
               get_circ_buffer_index(OutputOffset(pipe_m), i, pipe_m)
       IN /\ pipe_output' = [q \in Replicas(4) |->
                 [pipe_output[q] EXCEPT ![output_index + 1] = compute_out(q)]]
          /\ pipe_buffer' =
                 IF UsesBuffer(pipe_m, pipe_r)
                 THEN [q \in Replicas(4) |->
                         [pipe_buffer[q] EXCEPT ![(i % pipe_m) + 1] =
                             compute_out(q)]]
                 ELSE pipe_buffer
          /\ pipe_tmp' = [q \in Replicas(4) |-> compute_out(q)]
    /\ pipe_i' = pipe_i + 1
    /\ UNCHANGED <<pipe_m, pipe_r, pipe_vals>>
    /\ UNCHANGED notPipe

PipeNext == PipeWhileBody

SpecPipeline == PipeInit /\ [][PipeNext]_vars

\* The loop has ended.
PipeDone == pipe_i = LoopBound(pipe_m, pipe_r)

\* kExpectedFactor: the product of the weights of all stages, r times.
RECURSIVE ExpectedFactor(_)
ExpectedFactor(r) == IF r = 0 THEN 1 ELSE 1 * 2 * 3 * 4 * ExpectedFactor(r - 1)

\* The stages 0, 1, 2, 3 in order, r times.
RECURSIVE StagesInOrder(_)
StagesInOrder(r) ==
    IF r = 0 THEN <<>> ELSE StagesInOrder(r - 1) \o <<0, 1, 2, 3>>

\* Row m of the output of the last replica is row m of the input, passed
\* through the stages 0, 1, 2, 3 in order r times and scaled by the
\* product of the weights of all of them.
OutputOfPipeline ==
    \A m \in 0..(pipe_m - 1) :
        pipe_output[3][m + 1] =
            Value(pipe_vals[m] * ExpectedFactor(pipe_r), m,
                  StagesInOrder(pipe_r))

\* The larger of two numbers.
Max(a, b) == IF a >= b THEN a ELSE b

\* C27 as stated: the pipeline over 4 replicas with M microbatches and R
\* circular repeats takes M + 4R - 1 iterations, with one circular
\* collective-permute each; every microbatch fed in at replica 0 passes
\* the stages 0, 1, 2, 3 in order exactly R times, and row m of the output
\* of the last replica is row m of the input scaled by the product of all
\* stage weights taken R times, for M in {4, 5} and R in {1, 2}.
C27_PipelineInMPlus4RMinus1Iterations ==
    PipeDone
    => /\ pipe_i = pipe_m + 4 * pipe_r - 1
       /\ OutputOfPipeline

\* C27: the pipeline takes M + 3 + (R - 1) * max(M, 4) iterations (7, 8,
\* 11 and 13 in the four tests), with one circular collective-permute
\* each; every microbatch fed in at replica 0 passes the stages 0, 1, 2, 3
\* in order exactly R times, and row m of the output of the last replica
\* is row m of the input scaled by the product of all stage weights taken
\* R times, for M in {4, 5} and R in {1, 2}.
C27_PipelineScalesEveryMicrobatch ==
    PipeDone
    => /\ pipe_i = pipe_m + 3 + (pipe_r - 1) * Max(pipe_m, 4)
       /\ OutputOfPipeline

\* The pipeline of five microbatches and two repeats has ended, with two
\* different rows in its input.
C27_Witness ==
    /\ PipeDone
    /\ <<pipe_m, pipe_r>> = <<5, 2>>
    /\ pipe_vals[0] # pipe_vals[4]
    /\ pipe_output[3][5].val = 576 * pipe_vals[4]

\* =====================================================================
\* Part X: Prepare, and the communicator ExecuteOnStream asks for.  An
\* execution context is a device and a thunk; the thunks differ in their
\* logical stream index.
\* =====================================================================

\* The calls of Prepare that are followed.
MaxPrepares == 2

\* The thunks of the executable.
Thunks == {1, 2}

\* The execution contexts.
Contexts == DeviceIds \X Thunks

\* The replica-group lists of the thunks: no group or one.
PrepGroupLists(n) == {<<>>} \cup {<<g>> : g \in ReplicaGroupsOver(n)}

\* GetStreamId() of thunk x.
GetStreamId(x) == thunk_stream[x]

\* Stream 0 taken for every thunk.
ExecuteStreamId_Zero(x) == 0

\* ExecuteOnStream: const int64_t stream_id = GetStreamId()
ExecuteStreamId(x) == GetStreamId(x)

\* resource_requests.AddClique(key, num_local_participants)
AddClique(reqs, key, num_local_participants) ==
    reqs \cup {<<key, num_local_participants>>}

\* The Channel the process holds for a key (NoChannel: none).
CliqueOf(key) ==
    IF \E e \in cliques : e[1] = key
    THEN (CHOOSE e \in cliques : e[1] = key)[2]
    ELSE NoChannel

PrepInit ==
    /\ replica_count \in ReplicaCounts
    /\ partition_count \in PartitionCounts
    /\ device_assn \in DeviceAssignments(replica_count, partition_count)
    /\ group_mode \in GroupModes
    /\ replica_groups \in
           PrepGroupLists(IdCount(group_mode, replica_count, partition_count))
    /\ global_config \in BOOLEAN
    /\ resolved = <<>>
    /\ rank = <<>>
    /\ deref_null = <<>>
    /\ degenerate = <<>>
    /\ thunk_stream \in {<<0, 0>>, <<0, 1>>}
    /\ cstate = [c \in Contexts |-> "Created"]
    /\ requests = [c \in Contexts |-> {}]
    /\ used_key = [c \in Contexts |-> <<>>]
    /\ got_comm = [c \in Contexts |-> NoChannel]
    /\ cliques = {}
    /\ nprep = 0
    /\ RdvIdle
    /\ EvIdle
    /\ RegIdle
    /\ ExIdle
    /\ DevIdle
    /\ OpIdle
    /\ PermIdle
    /\ PipeIdle
    /\ LocIdle
    /\ CvIdle

\* NcclCollectiveThunk::Prepare(params, resource_requests) of thunk x with
\* the parameters of device d (no global_device_id_map given): the
\* participants are resolved and their clique is asked for.
Prepare(d, x) ==
    LET c == <<d, x>>
        got == GetParticipatingDevices(d, device_assn, replica_count,
                                       partition_count, replica_groups,
                                       group_mode)
    IN /\ cstate[c] = "Created"
       /\ nprep < MaxPrepares
       /\ nprep' = nprep + 1
       /\ IF got.status # "ok"
          THEN /\ cstate' = [cstate EXCEPT ![c] = "Failed"]
               /\ UNCHANGED requests
          ELSE /\ cstate' = [cstate EXCEPT ![c] = "Prepared"]
               /\ requests' = [requests EXCEPT ![c] =
                      AddClique(@,
                                NcclCliqueKey(got.participants, GetStreamId(x)),
                                PrepareNumLocalParticipants(
                                    got.participants, <<>>))]
       /\ UNCHANGED <<thunk_stream, used_key, got_comm, cliques>>
       /\ UNCHANGED notPrep

\* ExecuteOnStream of thunk x on device d, up to the communicator:
\* GetNcclComm(params, cliques, replica_groups, group_mode, stream_id) and
\* collective_cliques.GetComm(clique_key, rank), which hands out the
\* Channel of the key, constructed on its first use.
ExecuteGetNcclComm(d, x) ==
    LET c == <<d, x>>
        got == ResolveParticipants(d)
        stream_id == ExecuteStreamId(x)
        clique_key == NcclCliqueKey(got.participants, stream_id)
        held == CliqueOf(clique_key)
        channel == IF held = NoChannel THEN Cardinality(cliques) + 1 ELSE held
    IN /\ cstate[c] = "Prepared"
       /\ IF got.status # "ok"
          THEN /\ cstate' = [cstate EXCEPT ![c] = "Failed"]
               /\ UNCHANGED <<used_key, got_comm, cliques>>
          ELSE /\ cstate' = [cstate EXCEPT ![c] = "Executing"]
               /\ used_key' = [used_key EXCEPT ![c] = clique_key]
               /\ got_comm' = [got_comm EXCEPT ![c] = channel]
               /\ cliques' = cliques \cup {<<clique_key, channel>>}
       /\ UNCHANGED <<thunk_stream, requests, nprep>>
       /\ UNCHANGED notPrep

PrepNext ==
    \/ \E d \in DeviceIds, x \in Thunks : Prepare(d, x)
    \/ \E d \in DeviceIds, x \in Thunks : ExecuteGetNcclComm(d, x)

SpecPrepare == PrepInit /\ [][PrepNext]_vars

\* The keys Prepare has asked the registry to reserve for context c.
ReservedKeys(c) == {q[1] : q \in requests[c]}

\* C29: for one execution context, Prepare reserves at the registry
\* exactly the CliqueKey (the resolved participants, the stream id of the
\* thunk) that ExecuteOnStream later asks the communicator for, and
\* Prepare itself neither constructs nor acquires a Channel.
C29_PrepareReservesTheKeyExecuteUses ==
    /\ \A c \in Contexts :
          /\ cstate[c] = "Executing" => ReservedKeys(c) = {used_key[c]}
          /\ cstate[c] # "Executing" => got_comm[c] = NoChannel
    /\ \A e \in cliques :
          \E c \in Contexts : cstate[c] = "Executing" /\ got_comm[c] = e[2]

\* A context of the thunk with stream 1 has its Channel, another context
\* is prepared and has none.
C29_Witness ==
    \E c, p \in Contexts :
        /\ cstate[c] = "Executing"
        /\ c[2] = 2
        /\ thunk_stream[2] = 1
        /\ used_key[c][2] = 1
        /\ cstate[p] = "Prepared"
        /\ requests[p] # {}

\* The CliqueKey of the invocation of context c: its participants and the
\* logical stream index of its thunk.
InvocationKey(c) ==
    <<GetParticipatingDevices(c[1], device_assn, replica_count,
                              partition_count, replica_groups,
                              group_mode).participants,
      thunk_stream[c[2]]>>

\* C30: a Channel is bound to exactly one CliqueKey: two invocations whose
\* CliqueKeys differ, in the participant set or only in the logical stream
\* index, never receive the same Channel.
C30_ChannelBoundToOneKey ==
    \A c, p \in Contexts :
        (/\ cstate[c] = "Executing"
         /\ cstate[p] = "Executing"
         /\ InvocationKey(c) # InvocationKey(p))
        => got_comm[c] # got_comm[p]

\* Two invocations on one device whose keys differ only in the stream
\* index have their Channels.
C30_Witness ==
    \E c, p \in Contexts :
        /\ cstate[c] = "Executing"
        /\ cstate[p] = "Executing"
        /\ c[1] = p[1]
        /\ InvocationKey(c)[1] = InvocationKey(p)[1]
        /\ InvocationKey(c)[2] # InvocationKey(p)[2]
        /\ got_comm[c] # got_comm[p]

\* =====================================================================
\* Part XI: the number of local participants that Prepare and
\* LockNcclComm compute from the resolved participants and
\* params.global_device_id_map
\* =====================================================================

LocInit ==
    /\ loc_participants \in LocParticipantSets
    /\ loc_map \in {<<>>} \cup {<<m>> : m \in GlobalDeviceIdMaps}
    /\ loc_prepare = <<>>
    /\ loc_lock = <<>>
    /\ RdvIdle
    /\ ResIdle
    /\ EvIdle
    /\ RegIdle
    /\ ExIdle
    /\ DevIdle
    /\ OpIdle
    /\ PermIdle
    /\ PipeIdle
    /\ PrepIdle
    /\ CvIdle

\* Prepare, up to AddClique(key, num_local_participants).
LocPrepare ==
    /\ loc_prepare = <<>>
    /\ loc_prepare' =
           <<PrepareNumLocalParticipants(loc_participants, loc_map)>>
    /\ UNCHANGED <<loc_participants, loc_map, loc_lock, notLoc>>

\* LockNcclComm, up to AcquireNcclComm(..., num_local_participants, ...).
LocLockNcclComm ==
    /\ loc_lock = <<>>
    /\ loc_lock' = <<LockNumLocalParticipants(loc_participants, loc_map)>>
    /\ UNCHANGED <<loc_participants, loc_map, loc_prepare, notLoc>>

LocNext ==
    \/ LocPrepare
    \/ LocLockNcclComm

SpecLocal == LocInit /\ [][LocNext]_vars

\* The members of the ParticipantSet that are in the local device list.
LocalMembers ==
    {i \in DOMAIN loc_participants :
        \E o \in DOMAIN loc_map[1] : loc_map[1][o] = loc_participants[i]}

\* C33: the number of local participants is the number of ParticipantSet
\* members that are in the local device list, between 0 and the size of
\* the ParticipantSet; it is the size of the ParticipantSet when no local
\* device list is given; and Prepare and LockNcclComm compute the same
\* number from the same inputs.
C33_LocalParticipantsCounted ==
    /\ \A n \in {loc_prepare, loc_lock} :
          n # <<>> =>
             /\ n[1] \in 0..Len(loc_participants)
             /\ n[1] = IF loc_map = <<>> THEN Len(loc_participants)
                       ELSE Cardinality(LocalMembers)
    /\ (loc_lock # <<>> /\ loc_prepare # <<>>) => loc_lock = loc_prepare

\* Both have computed the number: one of three participants is local, of
\* a local device list of two.
C33_Witness ==
    /\ loc_lock = <<1>>
    /\ loc_prepare = <<1>>
    /\ Len(loc_participants) = 3
    /\ loc_map # <<>>
    /\ Cardinality(DOMAIN loc_map[1]) = 2

\* =====================================================================
\* Part XII: ConvertToDeviceBuffers(buffer_allocations, buffers,
\* element_types)
\* =====================================================================

\* buffers.size() and element_types.size() of the calls that are followed.
MaxBindings == 2

\* BufferAllocation::Slice values, and the device addresses of
\* buffer_allocations.
Slices == {1, 2}
DeviceAddresses == {10, 20}

\* The buffer_allocations: the slices have an address each.
BufferAllocationSets ==
    {a \in [Slices -> DeviceAddresses] : a[1] # a[2]}

\* NcclCollectiveThunk::Buffer
Buffers ==
    {[element_count |-> n, source_buffer |-> sl[1],
      destination_buffer |-> sl[2], source_memory_space |-> ms[1],
      destination_memory_space |-> ms[2]] :
        n \in {1, 2}, sl \in {<<1, 2>>, <<2, 1>>},
        ms \in {<<0, kCollectiveMemorySpaceColor>>,
                <<kCollectiveMemorySpaceColor, 0>>}}

\* The element types of the operands.
ElementTypes == {"F32", "S8"}

\* buffer_allocations->GetDeviceAddress(slice)
GetDeviceAddress(allocations, slice) == allocations[slice]

\* DeviceBufferPair{element_types[i], buffers[i].element_count, ...}
DeviceBufferPair(allocations, buffer, element_type) ==
    [element_type |-> element_type,
     element_count |-> buffer.element_count,
     source_buffer |-> GetDeviceAddress(allocations, buffer.source_buffer),
     destination_buffer |->
         GetDeviceAddress(allocations, buffer.destination_buffer),
     source_memory_space |-> buffer.source_memory_space,
     destination_memory_space |-> buffer.destination_memory_space]

FailedPrecondition ==
    [code |-> "FailedPrecondition",
     message |-> "Mismatch in operand buffer counts.", value |-> <<>>]

\* for (int i = 0; i < buffers.size(); ++i) device_buffers.emplace_back(...)
\* from index i on, device_buffers being what was emplaced so far.
RECURSIVE EmplaceFrom(_, _, _, _, _)
EmplaceFrom(i, device_buffers, allocations, buffers, element_types) ==
    IF i > Len(buffers) THEN device_buffers
    ELSE EmplaceFrom(i + 1,
                     Append(device_buffers,
                            DeviceBufferPair(allocations, buffers[i],
                                             element_types[i])),
                     allocations, buffers, element_types)

\* Every pair made with the first element type.
ConvertToDeviceBuffers_FirstType(allocations, buffers, element_types) ==
    IF Len(buffers) # Len(element_types) THEN FailedPrecondition
    ELSE [code |-> "Ok", message |-> "",
          value |-> [i \in 1..Len(buffers) |->
                        DeviceBufferPair(allocations, buffers[i],
                                         element_types[1])]]

\* ConvertToDeviceBuffers(buffer_allocations, buffers, element_types)
ConvertToDeviceBuffers(allocations, buffers, element_types) ==
    IF Len(buffers) # Len(element_types) THEN FailedPrecondition
    ELSE [code |-> "Ok", message |-> "",
          value |-> EmplaceFrom(1, <<>>, allocations, buffers,
                                element_types)]

CvInit ==
    /\ cv_allocations \in BufferAllocationSets
    /\ cv_buffers \in UNION {[1..n -> Buffers] : n \in 0..MaxBindings}
    /\ cv_types \in UNION {[1..n -> ElementTypes] : n \in 0..MaxBindings}
    /\ cv_result = <<>>
    /\ RdvIdle
    /\ ResIdle
    /\ EvIdle
    /\ RegIdle
    /\ ExIdle
    /\ DevIdle
    /\ OpIdle
    /\ PermIdle
    /\ PipeIdle
    /\ PrepIdle
    /\ LocIdle

\* ConvertToDeviceBuffers(params, buffers, element_types) is called.
CallConvertToDeviceBuffers ==
    /\ cv_result = <<>>
    /\ cv_result' = <<ConvertToDeviceBuffers(cv_allocations, cv_buffers,
                                             cv_types)>>
    /\ UNCHANGED <<cv_allocations, cv_buffers, cv_types, notCv>>

CvNext == CallConvertToDeviceBuffers

SpecConvert == CvInit /\ [][CvNext]_vars

\* C40: ConvertToDeviceBuffers fails with FailedPrecondition and makes no
\* descriptor when the number of buffer bindings differs from the number
\* of element types; otherwise it returns one DeviceBufferPair per
\* binding, in the order of the bindings, pair i with element type i and
\* with the element count, the device addresses and the memory-space
\* tags of binding i.
C40_OnePairPerBinding ==
    cv_result # <<>>
    => LET r == cv_result[1]
       IN IF Len(cv_buffers) # Len(cv_types)
          THEN r.code = "FailedPrecondition" /\ r.value = <<>>
          ELSE /\ r.code = "Ok"
               /\ Len(r.value) = Len(cv_buffers)
               /\ \A i \in 1..Len(cv_buffers) :
                     /\ r.value[i].element_type = cv_types[i]
                     /\ r.value[i].element_count = cv_buffers[i].element_count
                     /\ r.value[i].source_buffer
                           = cv_allocations[cv_buffers[i].source_buffer]
                     /\ r.value[i].destination_buffer
                           = cv_allocations[cv_buffers[i].destination_buffer]
                     /\ r.value[i].source_memory_space
                           = cv_buffers[i].source_memory_space
                     /\ r.value[i].destination_memory_space
                           = cv_buffers[i].destination_memory_space

\* Two bindings that differ in everything, with two element types, were
\* converted.
C40_Witness ==
    /\ cv_result # <<>>
    /\ cv_result[1].code = "Ok"
    /\ Len(cv_result[1].value) = 2
    /\ cv_types[1] # cv_types[2]
    /\ cv_buffers[1].element_count # cv_buffers[2].element_count
    /\ cv_buffers[1].source_buffer # cv_buffers[2].source_buffer
    /\ cv_buffers[1].source_memory_space # cv_buffers[2].source_memory_space

=============================================================================
